---- MODULE Spec2Model ----
(***************************************************************************)
(* Day-by-day sheep farm simulation (FarmModel in model.py) and the Monte  *)
(* Carlo / single-run drivers of app.py.                                   *)
(*                                                                         *)
(* Fixed-point units used for the floats of the source:                    *)
(*   money                      1/100 Kc                                   *)
(*   bcs, perceived_bcs         1/1000                                     *)
(*   pasture_health, rates      1/10000                                    *)
(*   weather_regime, modifiers  1/100                                      *)
(*   hay, order amounts         1/1000 bale                                *)
(*   feed intake, demand        1/10 kg                                    *)
(*   ages                       days (1/365 year)                          *)
(*   probabilities              1/10000                                    *)
(*   areas                      1/100 ha                                   *)
(* numpy's global random stream is a seeded deterministic generator; every *)
(* distribution draw consumes one value of the stream.                     *)
(***************************************************************************)
EXTENDS Integers, Sequences, FiniteSets, TLC

VARIABLES run1, run2

vars == <<run1, run2>>

(* ------------------------------ bounds --------------------------------- *)
\* days of a run that are explored (a run has cfg.sim_years * 365 days)
MaxDays == 700
\* seeds explored: sim_seed ranges over 0 .. NumSeeds - 1
NumSeeds == 3

(* --------------------------- arithmetic helpers ------------------------ *)
Min(a, b) == IF a < b THEN a ELSE b
Max(a, b) == IF a > b THEN a ELSE b

\* python int(): truncation toward zero of the quotient a / b, b > 0
IntDiv(a, b) == IF a >= 0 THEN a \div b ELSE -((-a) \div b)

RECURSIVE SqrtSearch(_, _, _)
SqrtSearch(n, lo, hi) ==
  IF lo >= hi THEN lo
  ELSE LET mid == (lo + hi + 1) \div 2
       IN IF mid * mid <= n THEN SqrtSearch(n, mid, hi)
                            ELSE SqrtSearch(n, lo, mid - 1)
\* floor of the square root, n in 0 .. 2^31-1
ISqrt(n) == SqrtSearch(n, 0, 46340)

(* ------------------------- numpy random stream ------------------------- *)
\* a seeding that would keep what the stream held before
SeedRngKeepsState(old, seed) == (old + seed) % 65536

\* np.random.seed(seed): the stream state becomes a function of the seed
\* only, whatever was consumed before
SeedRng(old, seed) == seed % 65536

\* one raw value is consumed: the stream state advances
NextRng(r) == (r * 25173 + 13849) % 65536

\* the raw value produced by the draw that moves the state from r, 0..4095
Raw(r) == NextRng(r) \div 16

\* np.random.random() < p, p in 1/10000
RandomBelow(r, p) == Raw(r) * 10000 < p * 4096

\* np.random.randint(lo, hi): lo <= value < hi
RandInt(r, lo, hi) == lo + (Raw(r) * (hi - lo)) \div 4096

\* standard normal quantiles (1/100 sigma) of 32 equiprobable classes
ZTable == << -215, -168, -142, -123, -108, -95, -83, -72, -62, -53, -44,
             -36, -28, -20, -12, -4, 4, 12, 20, 28, 36, 44, 53, 62, 72, 83,
             95, 108, 123, 142, 168, 215 >>
Z(r) == ZTable[(Raw(r) \div 128) + 1]

\* np.random.normal(mean, std)
Normal(r, mean, std) == mean + IntDiv(std * Z(r), 100)

\* get_stochastic_value(mean, std, min_val = 0.0)
get_stochastic_value(r, mean, std) == Max(0, Normal(r, mean, std))

\* np.random.binomial(n, p) by inversion of one uniform value, p in 1/10000:
\* px is the probability of X successes and u the remaining uniform mass,
\* both in 1/65536
RECURSIVE BinomInv(_, _, _, _, _)
BinomInv(n, p, X, px, u) ==
  IF X >= n \/ u <= px \/ px = 0 THEN X
  ELSE BinomInv(n, p, X + 1,
                (((px * p) \div (10000 - p)) * (n - X)) \div (X + 1),
                u - px)
RECURSIVE PowQ(_, _)
\* (1 - p)^n in 1/65536
PowQ(p, n) == IF n = 0 THEN 65536
              ELSE (PowQ(p, n - 1) * (10000 - p)) \div 10000
Binomial(r, n, p) ==
  IF n <= 0 \/ p <= 0 THEN 0
  ELSE IF p >= 10000 THEN n
  ELSE IF p > 5000
       THEN n - BinomInv(n, 10000 - p, 0, PowQ(10000 - p, n), Raw(r) * 16 + 8)
       ELSE BinomInv(n, p, 0, PowQ(p, n), Raw(r) * 16 + 8)
\* a binomial draw with n = 0 or p = 0 returns without touching the stream
BinomialRng(r, n, p) == IF n <= 0 \/ p <= 0 THEN r ELSE NextRng(r)

\* remove the element at index i of a sequence
RemoveAt(seq, i) == SubSeq(seq, 1, i - 1) \o SubSeq(seq, i + 1, Len(seq))

\* np.random.choice(..., k, replace=False) followed by the removal of the
\* chosen entries: k picks, one raw value each
RECURSIVE RemoveRandom(_, _, _)
RemoveRandom(r, seq, k) ==
  IF k <= 0 \/ Len(seq) = 0 THEN seq
  ELSE RemoveRandom(NextRng(r), RemoveAt(seq, RandInt(r, 1, Len(seq) + 1)), k - 1)
RECURSIVE AdvanceRng(_, _)
AdvanceRng(r, k) == IF k <= 0 THEN r ELSE AdvanceRng(NextRng(r), k - 1)

(* ------------------------------ calendar ------------------------------- *)
\* pd.date_range(start="2025-01-01", periods=total_steps, freq="D")
IsLeap(y) == (y % 4 = 0 /\ y % 100 # 0) \/ y % 400 = 0
YearLen(y) == IF IsLeap(y) THEN 366 ELSE 365

RECURSIVE DateFrom(_, _)
\* <<year, day of year>> of the day that lies d days after January 1st of y
DateFrom(y, d) == IF d < YearLen(y) THEN <<y, d + 1>>
                  ELSE DateFrom(y + 1, d - YearLen(y))

MonthLen(y, m) == IF m = 2 THEN (IF IsLeap(y) THEN 29 ELSE 28)
                  ELSE IF m \in {4, 6, 9, 11} THEN 30 ELSE 31

RECURSIVE MonthFrom(_, _, _)
\* <<month, day of month>> of day-of-year doy (counted from month m)
MonthFrom(y, m, doy) == IF doy <= MonthLen(y, m) THEN <<m, doy>>
                        ELSE MonthFrom(y, m + 1, doy - MonthLen(y, m))

\* self.dates[t], self.months[t], self.days[t], self.day_of_years[t]
Calendar(t) ==
  LET yd == DateFrom(2025, t)
      md == MonthFrom(yd[1], 1, yd[2])
  IN [year |-> yd[1], month |-> md[1], day |-> md[2], dayofyear |-> yd[2]]

(* ---------------------------- configuration ---------------------------- *)
\* FarmConfig with the defaults of the dataclass; the five fields without a
\* default there carry the values of BASE_SCENARIO
FarmConfig ==
  [ sim_years |-> 2, land_area |-> 30, meadow_share |-> 25,
    barn_capacity |-> 200, initial_ewes |-> 150,
    barn_area_m2 |-> 400, hay_barn_area_m2 |-> 200,
    capital |-> 25000000, price_meat_avg |-> 8500, meat_price_std |-> 1000,
    initial_hay_bales |-> 25000,
    price_bale_sell_winter |-> 120000, price_bale_sell_summer |-> 60000,
    price_ram_purchase |-> 1000000,
    market_local_limit |-> 40, price_meat_wholesale |-> 5500,
    pasture_degradation_rate |-> 100, pasture_recovery_rate |-> 20,
    delay_bcs_perception |-> 10, delay_feed_delivery |-> 3,
    max_ewe_age |-> 2920,
    machinery_mode |-> "Services", climate_profile |-> "Normal",
    include_labor_cost |-> FALSE,
    rain_growth_global_mod |-> 100, drought_prob_add |-> 0,
    winter_len_global_mod |-> 100,
    safety_margin |-> 20, enable_forecasting |-> TRUE,
    cost_feed_market_mean |-> 800,
    cost_vet_base |-> 35000, cost_shearing |-> 5000,
    admin_base_cost |-> 500000, admin_complexity_factor |-> 3,
    service_mow_ha |-> 300000, service_bale_pcs |-> 20000,
    own_mow_fuel_ha |-> 40000, own_bale_material |-> 5000,
    own_machine_capex |-> 160000000, own_machine_life |-> 10,
    machinery_repair_mean |-> 2500000, machinery_repair_std |-> 500000,
    machinery_failure_prob_daily |-> 1,
    fertility_mean |-> 150, fertility_std |-> 20,
    mortality_lamb_mean |-> 1000, mortality_ewe_mean |-> 400,
    feed_intake_ewe |-> 22, feed_intake_lamb |-> 12,
    hay_yield_ha_mean |-> 12000, hay_yield_ha_std |-> 3000,
    bale_weight_kg |-> 250, bale_volume_m3 |-> 14,
    subsidy_ha_mean |-> 850000, subsidy_sheep_mean |-> 60300,
    tax_land_ha |-> 50000, tax_building_m2 |-> 1500,
    overhead_base_year |-> 4000000, barn_maintenance_m2_year |-> 6000,
    shock_prob_daily |-> 50,
    shock_cost_mean |-> 1500000, shock_cost_std |-> 500000,
    wage_hourly |-> 20000, labor_hours_per_ewe_year |-> 80,
    labor_hours_per_ha_year |-> 100, labor_hours_fix_year |-> 2000,
    labor_hours_barn_m2_year |-> 5 ]

(* ----------------------------- construction ---------------------------- *)
\* the columns of one DailyRecord (history_store[...][t], feed_source_store[t])
NoRow ==
  [ Cash |-> 0, Ewes |-> 0, Lambs |-> 0, Lambs_Male |-> 0,
    Lambs_Female |-> 0, Exp_Variable |-> 0,
    Total_Animals |-> 0, Hay_Stock |-> 0, Income |-> 0,
    Exp_Feed |-> 0, Exp_Vet |-> 0, Exp_Machinery |-> 0, Exp_Mow |-> 0,
    Exp_Shearing |-> 0, Exp_RamPurchase |-> 0, Exp_Admin |-> 0,
    Exp_Labor |-> 0, Labor_Hours |-> 0, Exp_Overhead |-> 0, Exp_Shock |-> 0,
    BCS |-> 0, Meat_Price |-> 0, Pasture_Health |-> 0, Perceived_BCS |-> 0,
    Weather_Regime |-> 0, Is_Winter |-> 0, Is_Drought |-> 0,
    Inc_Meat |-> 0, Inc_Hay |-> 0, Inc_Subsidy |-> 0,
    Sold_Animals |-> 0, Sold_Hay |-> 0, Feed_Source |-> "" ]

\* the local variables of step(), as they stand at the top of a step
StepLocals ==
  [ base_meat_price |-> 0, demand_kg |-> 0, feed_cost |-> 0,
    total_adults |-> 0, total_lambs |-> 0,
    feed_source |-> "", day_vet |-> 0, day_mow |-> 0, day_shearing |-> 0,
    day_ram_purchase |-> 0, day_machinery |-> 0, day_admin |-> 0,
    is_drought |-> FALSE, reorder_due |-> FALSE, ordered |-> FALSE,
    order_cost |-> 0,
    grazing |-> FALSE, force_hay |-> FALSE, pressure |-> 0, avail |-> 0,
    fed |-> 0, needed_bales |-> 0, hay_before |-> 0, wants_to_supplement |-> FALSE,
    vet_multiplier |-> 1, inc_meat |-> 0, inc_hay |-> 0, inc_subsidy |-> 0,
    sold_animals |-> 0, sold_hay |-> 0, var_cost |-> 0,
    born_today_mothers |-> 0, new_lambs |-> 0, abortions |-> 0,
    mated |-> FALSE, sale_day |-> FALSE, quota_remaining |-> 0,
    local_males |-> 0, sold_males |-> 0, local_females |-> 0,
    sold_females |-> 0, rev_males |-> 0, rev_females |-> 0,
    cull_count |-> 0, keep |-> 0, daily_hours |-> 0, labor_val |-> 0,
    shock_val |-> 0, daily_overhead |-> 0, income |-> 0, total_out |-> 0,
    deaths_ewes |-> 0, arrived |-> 0 ]

\* FarmModel.__init__(cfg); rng is the state of numpy's global stream
FarmModel(cfg, rng) ==
  LET base_grass  == IF cfg.climate_profile = "Dry" THEN 70
                     ELSE IF cfg.climate_profile = "Mountain" THEN 120
                     ELSE 100
      base_drought == IF cfg.climate_profile = "Dry" THEN 200
                      ELSE IF cfg.climate_profile = "Mountain" THEN 10
                      ELSE IF cfg.climate_profile = "UI_Custom" THEN 0
                      ELSE 50
      base_winter == IF cfg.climate_profile = "Dry" THEN 80
                     ELSE IF cfg.climate_profile = "Mountain" THEN 130
                     ELSE 100
      winter_len_mod == (base_winter * cfg.winter_len_global_mod) \div 100
  IN [ cfg |-> cfg, rng |-> rng, t |-> 0, pc |-> "run",
       loc |-> StepLocals, row |-> NoRow,
       ewes |-> cfg.initial_ewes,
       ewe_ages |-> [i \in 1 .. cfg.initial_ewes |-> 1095],
       rams_breeding |-> Max(1, IntDiv(cfg.initial_ewes, 30)),
       ram_age |-> 1095,
       lambs_male |-> 0, lambs_female |-> 0,
       cash |-> cfg.capital,
       hay_stock_bales |-> cfg.initial_hay_bales,
       bcs |-> 3000, pasture_health |-> 10000, perceived_bcs |-> 3000,
       feed_orders |-> << >>, pregnant_ewes |-> 0,
       weather_regime |-> 100, weather_timer |-> 0,
       grass_mod |-> (base_grass * cfg.rain_growth_global_mod) \div 100,
       drought_chance |->
         Max(0, Min(10000, base_drought + cfg.drought_prob_add)),
       winter_len_mod |-> winter_len_mod,
       is_winter |-> TRUE,
       winter_end_day |-> IntDiv(80 * winter_len_mod, 100),
       winter_start_day |-> 365 - ((60 * winter_len_mod + 99) \div 100),
       area_meadow |-> cfg.land_area * cfg.meadow_share,
       area_pasture |-> cfg.land_area * (100 - cfg.meadow_share),
       event_log |-> << >>,
       total_steps |-> cfg.sim_years * 365 ]

\* Grass curve (Month 1-12), 1/10
grass_curve == << 0, 0, 1, 5, 12, 11, 8, 6, 8, 4, 1, 0 >>

\* self.event_log.append(...): the entry keeps the day and the kind of event
Log(s, kind) == [s EXCEPT !.event_log = Append(@, <<s.t, kind>>)]

(* ------------------------------- step(t) ------------------------------- *)
\* model.py 222-229: calendar lookup and aging of the ledger and the ram
Aging(s) ==
  [s EXCEPT !.loc = StepLocals,
            !.ewe_ages = [i \in DOMAIN s.ewe_ages |-> s.ewe_ages[i] + 1],
            !.ram_age = @ + 1]

\* a farmer who sees the condition of the herd without delay
PerceptionInstant(s) == [s EXCEPT !.perceived_bcs = s.bcs]

\* model.py 231-236: perception delay (exponential smoothing)
Perception(s) ==
  LET delay == Max(1, s.cfg.delay_bcs_perception)
  IN [s EXCEPT !.perceived_bcs =
                 (s.perceived_bcs * (delay - 1) + s.bcs) \div delay]

\* a redraw kept as drawn
ClampRegimeNone(x) == x

\* the clamp of a freshly drawn regime
ClampRegime(x) == Max(50, Min(150, x))

\* model.py 238-246: weather regime update
WeatherRegime(s) ==
  LET r1 == NextRng(s.rng)
      s1 == IF s.weather_timer <= 0
            THEN [s EXCEPT !.weather_regime =
                             ClampRegime(Normal(s.rng, 100, 25)),
                           !.weather_timer = RandInt(r1, 5, 10),
                           !.rng = NextRng(r1)]
            ELSE s
  IN [s1 EXCEPT !.weather_timer = @ - 1]

\* model.py 248-250: meat price of the day
MeatPrice(s) ==
  LET p == get_stochastic_value(s.rng, s.cfg.price_meat_avg,
                                s.cfg.meat_price_std)
      m == Calendar(s.t).month
  IN [s EXCEPT !.rng = NextRng(s.rng),
               !.loc.base_meat_price =
                  IF m \in {3, 4} THEN (p * 125) \div 100 ELSE p]

\* season control that draws a new end of winter on every day of the year
SeasonControlRedraw(s) ==
  LET day == Calendar(s.t).dayofyear
      s1 == IF s.is_winter /\ day > s.winter_end_day
            THEN IF RandomBelow(s.rng, 1000)
                 THEN Log([s EXCEPT !.rng = NextRng(s.rng),
                                    !.is_winter = FALSE], "spring")
                 ELSE [s EXCEPT !.rng = NextRng(s.rng)]
            ELSE s
      r2 == NextRng(s1.rng)
      end_day == IntDiv(Max(0, 80 * s1.winter_len_mod + 10 * Z(r2)), 100)
  IN IF ~s1.is_winter /\ day > s1.winter_start_day
     THEN IF RandomBelow(s1.rng, 1000)
          THEN Log([s1 EXCEPT !.rng = NextRng(r2), !.is_winter = TRUE,
                              !.winter_end_day = end_day], "winter")
          ELSE [s1 EXCEPT !.rng = r2, !.winter_end_day = end_day]
     ELSE s1

\* model.py 252-262: season control
SeasonControl(s) ==
  LET day == Calendar(s.t).dayofyear
      s1 == IF s.is_winter /\ day > s.winter_end_day
            THEN IF RandomBelow(s.rng, 1000)
                 THEN Log([s EXCEPT !.rng = NextRng(s.rng),
                                    !.is_winter = FALSE], "spring")
                 ELSE [s EXCEPT !.rng = NextRng(s.rng)]
            ELSE s
      r2 == NextRng(s1.rng)
  IN IF ~s1.is_winter /\ day > s1.winter_start_day
     THEN IF RandomBelow(s1.rng, 1000)
          THEN Log([s1 EXCEPT
                      !.rng = NextRng(r2),
                      !.is_winter = TRUE,
                      !.winter_end_day =
                         IntDiv(Max(0, 80 * s1.winter_len_mod + 10 * Z(r2)),
                                100)], "winter")
          ELSE [s1 EXCEPT !.rng = r2]
     ELSE s1

RECURSIVE SumAmounts(_)
SumAmounts(orders) ==
  IF orders = << >> THEN 0
  ELSE Head(orders).amount + SumAmounts(Tail(orders))

RECURSIVE LogArrivals(_, _)
LogArrivals(s, n) == IF n <= 0 THEN s ELSE LogArrivals(Log(s, "delivery"), n - 1)

\* model.py 264-270: feed arrivals; an order's date is a day index
FeedArrivals(s) ==
  LET arrived == SelectSeq(s.feed_orders, LAMBDA o : o.date <= s.t)
      waiting == SelectSeq(s.feed_orders, LAMBDA o : o.date > s.t)
  IN LogArrivals([s EXCEPT !.feed_orders = waiting,
                           !.hay_stock_bales = @ + SumAmounts(arrived),
                           !.loc.arrived = Len(arrived)],
                 Len(arrived))

\* model.py 272-275: total_adults, total_lambs
TotalAdults(s) == s.ewes + s.rams_breeding
TotalLambs(s) == s.lambs_male + s.lambs_female
Demand(s) ==
  [s EXCEPT !.loc.total_adults = TotalAdults(s),
            !.loc.total_lambs = TotalLambs(s),
            !.loc.demand_kg = TotalAdults(s) * s.cfg.feed_intake_ewe
                              + TotalLambs(s) * s.cfg.feed_intake_lamb]

\* a drought that is drawn in June to August whatever the season
DroughtAnySeason(s) ==
  IF Calendar(s.t).month \in {6, 7, 8}
  THEN LET prob == IF s.weather_regime < 80 THEN s.drought_chance * 5
                   ELSE IF s.weather_regime > 120
                        THEN s.drought_chance \div 10
                        ELSE s.drought_chance
       IN IF RandomBelow(s.rng, prob)
          THEN Log([s EXCEPT !.rng = NextRng(s.rng),
                             !.loc.is_drought = TRUE], "drought")
          ELSE [s EXCEPT !.rng = NextRng(s.rng)]
  ELSE s

\* model.py 288-300: drought simulation
Drought(s) ==
  IF ~s.is_winter /\ Calendar(s.t).month \in {6, 7, 8}
  THEN LET prob == IF s.weather_regime < 80 THEN s.drought_chance * 5
                   ELSE IF s.weather_regime > 120
                        THEN s.drought_chance \div 10
                        ELSE s.drought_chance
       IN IF RandomBelow(s.rng, prob)
          THEN Log([s EXCEPT !.rng = NextRng(s.rng),
                             !.loc.is_drought = TRUE], "drought")
          ELSE [s EXCEPT !.rng = NextRng(s.rng)]
  ELSE s

\* demand_kg * factor / bale_weight_kg in bales, factor in 1/100
BalesFor(s, kg, factor) == (kg * factor) \div s.cfg.bale_weight_kg

\* an order for a fortnight instead of a week
ReorderFortnight(s) ==
  LET daily_bales_needed == BalesFor(s, s.loc.demand_kg, 120)
      pending_bales == SumAmounts(s.feed_orders)
      order_amount == daily_bales_needed * 14
      delivery_date == s.t + s.cfg.delay_feed_delivery
      price == get_stochastic_value(s.rng, s.cfg.price_bale_sell_winter,
                                    10000)
      cost == (order_amount * (price \div 100)) \div 10
  IN IF s.hay_stock_bales + pending_bales < daily_bales_needed * 3
     THEN IF s.cash > cost
          THEN [s EXCEPT !.rng = NextRng(s.rng),
                         !.cash = @ - cost,
                         !.feed_orders =
                            Append(@, [date |-> delivery_date,
                                       amount |-> order_amount]),
                         !.loc.reorder_due = TRUE,
                         !.loc.ordered = TRUE,
                         !.loc.order_cost = cost]
          ELSE [s EXCEPT !.rng = NextRng(s.rng),
                         !.loc.reorder_due = TRUE]
     ELSE s

\* an order placed whether or not the cash covers it
ReorderOnCredit(s) ==
  LET daily_bales_needed == BalesFor(s, s.loc.demand_kg, 120)
      pending_bales == SumAmounts(s.feed_orders)
      order_amount == daily_bales_needed * 7
      delivery_date == s.t + s.cfg.delay_feed_delivery
      price == get_stochastic_value(s.rng, s.cfg.price_bale_sell_winter,
                                    10000)
      cost == (order_amount * (price \div 100)) \div 10
  IN IF s.hay_stock_bales + pending_bales < daily_bales_needed * 3
     THEN IF TRUE
          THEN [s EXCEPT !.rng = NextRng(s.rng),
                         !.cash = @ - cost,
                         !.feed_orders =
                            Append(@, [date |-> delivery_date,
                                       amount |-> order_amount]),
                         !.loc.reorder_due = TRUE,
                         !.loc.ordered = TRUE,
                         !.loc.order_cost = cost]
          ELSE [s EXCEPT !.rng = NextRng(s.rng),
                         !.loc.reorder_due = TRUE]
     ELSE s

\* model.py 302-320: reorder point
Reorder(s) ==
  LET daily_bales_needed == BalesFor(s, s.loc.demand_kg, 120)
      pending_bales == SumAmounts(s.feed_orders)
      order_amount == daily_bales_needed * 7
      delivery_date == s.t + s.cfg.delay_feed_delivery
      price == get_stochastic_value(s.rng, s.cfg.price_bale_sell_winter,
                                    10000)
      cost == (order_amount * (price \div 100)) \div 10
  IN IF s.hay_stock_bales + pending_bales < daily_bales_needed * 3
     THEN IF s.cash > cost
          THEN [s EXCEPT !.rng = NextRng(s.rng),
                         !.cash = @ - cost,
                         !.feed_orders =
                            Append(@, [date |-> delivery_date,
                                       amount |-> order_amount]),
                         !.loc.reorder_due = TRUE,
                         !.loc.ordered = TRUE,
                         !.loc.order_cost = cost]
          ELSE [s EXCEPT !.rng = NextRng(s.rng),
                         !.loc.reorder_due = TRUE]
     ELSE s

\* a feeding that hands out the whole need whatever the stock
FeedHayUnchecked(s) ==
  LET needed_bales == BalesFor(s, s.loc.demand_kg, 120)
      fed == needed_bales
  IN [s EXCEPT !.hay_stock_bales = @ - fed,
               !.loc.fed = fed,
               !.loc.needed_bales = needed_bales,
               !.loc.feed_cost = fed * 5,
               !.bcs = Max(2500, s.bcs - 1),
               !.loc.feed_source = "Seno"]

\* model.py 322-336: feeding on a winter or drought day
FeedHay(s) ==
  LET needed_bales == BalesFor(s, s.loc.demand_kg, 120)
      fed == Min(s.hay_stock_bales, needed_bales)
  IN [s EXCEPT !.hay_stock_bales = @ - fed,
               !.loc.fed = fed,
               !.loc.needed_bales = needed_bales,
               !.loc.feed_cost = fed * 5,
               !.bcs = IF fed < needed_bales THEN Max(1500, s.bcs - 5)
                       ELSE Max(2500, s.bcs - 1),
               !.loc.feed_source = IF fed < needed_bales
                                   THEN "Hladoveni (Cekani)" ELSE "Seno"]

\* a degradation without the floor
PastureHealthNoFloor(health, pressure, cfg) ==
  IF pressure > 95
  THEN health - ((pressure - 95) * cfg.pasture_degradation_rate) \div 100
  ELSE IF pressure < 50
       THEN Min(10000, health + cfg.pasture_recovery_rate)
       ELSE health

\* model.py 353-366: pasture health under the grazing pressure of the day
PastureHealth(health, pressure, cfg) ==
  IF pressure > 95
  THEN Max(1000, health - ((pressure - 95) * cfg.pasture_degradation_rate)
                          \div 100)
  ELSE IF pressure < 50
       THEN Min(10000, health + cfg.pasture_recovery_rate)
       ELSE health

\* a farm that never closes the pasture
ForceHayNever(s) == FALSE

\* model.py 347-351: pasture protection
ForceHay(s) == s.pasture_health < 5000 /\ s.hay_stock_bales > 5000

\* a farmer who supplements whenever the grass falls short
GrazeAttentive(s) ==
  LET r2 == NextRng(s.rng)
      month == Calendar(s.t).month
      \* growth in 1/1000
      g1 == (grass_curve[month] * s.grass_mod * (s.pasture_health \div 10))
            \div 1000
      g2 == (g1 * s.weather_regime * Normal(s.rng, 100, 10)) \div 10000
      \* avail in 1/10 kg: area (1/100 ha) * 35 kg * growth
      avail == (((s.area_pasture * 35 * g2) \div 1000)
                * Normal(r2, 100, 20)) \div 1000
      demand_kg == s.loc.demand_kg
      force_hay == ForceHay(s)
      pressure == IF force_hay THEN 0
                  ELSE IF avail > 0 THEN (demand_kg * 100) \div avail
                  ELSE 1000
      health == PastureHealth(s.pasture_health, pressure, s.cfg)
      wants_to_supplement == TRUE
      eff_avail == IF force_hay THEN 0 ELSE avail
      deficit == demand_kg - eff_avail
      needed_bales == BalesFor(s, deficit, 140)
      fed == Min(s.hay_stock_bales, needed_bales)
      s1 == [s EXCEPT !.rng = NextRng(r2),
                      !.pasture_health = health,
                      !.loc.grazing = TRUE,
                      !.loc.avail = avail,
                      !.loc.force_hay = force_hay,
                      !.loc.pressure = pressure,
                      !.loc.wants_to_supplement = wants_to_supplement]
  IN IF eff_avail >= demand_kg
     THEN [s1 EXCEPT !.bcs = Min(4000, s.bcs + 4),
                     !.loc.feed_cost = demand_kg * 2,
                     !.loc.feed_source = "Pastva"]
     ELSE IF wants_to_supplement \/ force_hay
     THEN [s1 EXCEPT !.hay_stock_bales = @ - fed,
                     !.loc.fed = fed,
                     !.loc.needed_bales = needed_bales,
                     !.loc.feed_cost = eff_avail * 2 + fed * 5,
                     !.bcs = IF fed < needed_bales THEN s.bcs - 3 ELSE s.bcs,
                     !.loc.feed_source =
                        IF fed < needed_bales
                        THEN (IF force_hay THEN "Hladoveni (Bez sena)"
                                           ELSE "Pastva + Hlad")
                        ELSE (IF force_hay THEN "Seno (Ochrana)"
                                           ELSE "Pastva + Seno")]
     ELSE [s1 EXCEPT !.bcs = s.bcs - 2,
                     !.loc.feed_source = "Pastva (Bez prikrmu)"]

\* model.py 338-399: feeding on a grazing day
Graze(s) ==
  LET r2 == NextRng(s.rng)
      month == Calendar(s.t).month
      \* growth in 1/1000
      g1 == (grass_curve[month] * s.grass_mod * (s.pasture_health \div 10))
            \div 1000
      g2 == (g1 * s.weather_regime * Normal(s.rng, 100, 10)) \div 10000
      \* avail in 1/10 kg: area (1/100 ha) * 35 kg * growth
      avail == (((s.area_pasture * 35 * g2) \div 1000)
                * Normal(r2, 100, 20)) \div 1000
      demand_kg == s.loc.demand_kg
      force_hay == ForceHay(s)
      pressure == IF force_hay THEN 0
                  ELSE IF avail > 0 THEN (demand_kg * 100) \div avail
                  ELSE 1000
      health == PastureHealth(s.pasture_health, pressure, s.cfg)
      wants_to_supplement == s.perceived_bcs < 3200
      eff_avail == IF force_hay THEN 0 ELSE avail
      deficit == demand_kg - eff_avail
      needed_bales == BalesFor(s, deficit, 140)
      fed == Min(s.hay_stock_bales, needed_bales)
      s1 == [s EXCEPT !.rng = NextRng(r2),
                      !.pasture_health = health,
                      !.loc.grazing = TRUE,
                      !.loc.avail = avail,
                      !.loc.force_hay = force_hay,
                      !.loc.pressure = pressure,
                      !.loc.wants_to_supplement = wants_to_supplement]
  IN IF eff_avail >= demand_kg
     THEN [s1 EXCEPT !.bcs = Min(4000, s.bcs + 4),
                     !.loc.feed_cost = demand_kg * 2,
                     !.loc.feed_source = "Pastva"]
     ELSE IF wants_to_supplement \/ force_hay
     THEN [s1 EXCEPT !.hay_stock_bales = @ - fed,
                     !.loc.fed = fed,
                     !.loc.needed_bales = needed_bales,
                     !.loc.feed_cost = eff_avail * 2 + fed * 5,
                     !.bcs = IF fed < needed_bales THEN s.bcs - 3 ELSE s.bcs,
                     !.loc.feed_source =
                        IF fed < needed_bales
                        THEN (IF force_hay THEN "Hladoveni (Bez sena)"
                                           ELSE "Pastva + Hlad")
                        ELSE (IF force_hay THEN "Seno (Ochrana)"
                                           ELSE "Pastva + Seno")]
     ELSE [s1 EXCEPT !.bcs = s.bcs - 2,
                     !.loc.feed_source = "Pastva (Bez prikrmu)"]

\* a grazing day that is left without a label
FeedingUnlabelled(s) ==
  LET s1 == [s EXCEPT !.loc.hay_before = s.hay_stock_bales]
  IN IF s.is_winter \/ s.loc.is_drought THEN FeedHay(s1)
     ELSE [Graze(s1) EXCEPT !.loc.feed_source = ""]

\* model.py 322-401: feeding and BCS; hay_before is the stock the decision reads
Feeding(s) ==
  LET s1 == [s EXCEPT !.loc.hay_before = s.hay_stock_bales]
  IN IF s.is_winter \/ s.loc.is_drought THEN FeedHay(s1) ELSE Graze(s1)

\* model.py 403-405: vet multiplier
VetMultiplier(s) ==
  [s EXCEPT !.loc.vet_multiplier = IF s.bcs < 2500 THEN 2 ELSE 1]

\* model.py 407-417: machinery cost; the breakdown draw exists in Own mode only
Machinery(s) ==
  IF s.cfg.machinery_mode = "Own"
  THEN LET daily_depreciation ==
             (s.cfg.own_machine_capex \div s.cfg.own_machine_life) \div 365
           r2 == NextRng(s.rng)
           repair == get_stochastic_value(r2, s.cfg.machinery_repair_mean,
                                          s.cfg.machinery_repair_std)
       IN IF RandomBelow(s.rng, s.cfg.machinery_failure_prob_daily
                                * s.cfg.land_area)
          THEN Log([s EXCEPT !.rng = NextRng(r2),
                             !.loc.day_machinery = daily_depreciation + repair],
                   "breakdown")
          ELSE [s EXCEPT !.rng = r2,
                         !.loc.day_machinery = daily_depreciation]
  ELSE s

RECURSIVE PowScale(_, _)
\* 1000 * (ratio / 1000)^k
PowScale(ratio, k) == IF k <= 0 THEN 1000
                      ELSE (PowScale(ratio, k - 1) * ratio) \div 1000

\* (max(1, N) / 50) ^ admin_complexity_factor in 1/1000; the exponent is
\* given in halves: the whole part by repeated products, the half by a root
AdminScale(total_animals, factor) ==
  LET ratio == Max(1, total_animals) * 20
      whole == PowScale(ratio, factor \div 2)
  IN IF factor % 2 = 0 THEN whole
     ELSE (whole * ISqrt(ratio * 1000)) \div 1000

\* model.py 419-423: admin penalty
Admin(s) ==
  [s EXCEPT !.loc.day_admin =
     ((s.cfg.admin_base_cost \div 1000)
      * AdminScale(s.loc.total_adults + s.loc.total_lambs,
                   s.cfg.admin_complexity_factor)) \div 365]

\* model.py 438: conception rate in 1/100
ConceptionRate(bcs) ==
  IF bcs > 3000 THEN 95 ELSE IF bcs > 2500 THEN 70 ELSE 30

\* model.py 435-440: mating
Mating(s) ==
  LET d == Calendar(s.t)
  IN IF d.month = 10 /\ d.day = 1
     THEN Log([s EXCEPT !.pregnant_ewes =
                           (s.ewes * ConceptionRate(s.bcs)) \div 100,
                        !.loc.mated = TRUE], "mating")
     ELSE s

\* model.py 442-446: gestation risk
Gestation(s) ==
  IF s.pregnant_ewes > 0 /\ s.bcs < 2000
  THEN LET abortions == (s.pregnant_ewes * 5) \div 100
       IN [s EXCEPT !.pregnant_ewes = Max(0, s.pregnant_ewes - abortions),
                    !.loc.abortions = abortions]
  ELSE s

\* lambing that gives both sexes the rounded-down half of the newborns
LambingEvenSplit(s) ==
  IF Calendar(s.t).month = 3
  THEN LET born_today_mothers == Binomial(s.rng, s.pregnant_ewes, 1000)
           r2 == BinomialRng(s.rng, s.pregnant_ewes, 1000)
           f == get_stochastic_value(r2, s.cfg.fertility_mean,
                                     s.cfg.fertility_std)
           new_lambs == (born_today_mothers * f) \div 100
       IN IF born_today_mothers > 0
          THEN [s EXCEPT !.rng = NextRng(r2),
                         !.pregnant_ewes = @ - born_today_mothers,
                         !.lambs_male = @ + new_lambs \div 2,
                         !.lambs_female = @ + new_lambs \div 2,
                         !.bcs = @ - (born_today_mothers * 400)
                                     \div Max(1, s.ewes),
                         !.loc.born_today_mothers = born_today_mothers,
                         !.loc.new_lambs = new_lambs]
          ELSE [s EXCEPT !.rng = r2]
  ELSE s

\* model.py 448-459: lambing
Lambing(s) ==
  IF Calendar(s.t).month = 3
  THEN LET born_today_mothers == Binomial(s.rng, s.pregnant_ewes, 1000)
           r2 == BinomialRng(s.rng, s.pregnant_ewes, 1000)
           f == get_stochastic_value(r2, s.cfg.fertility_mean,
                                     s.cfg.fertility_std)
           new_lambs == (born_today_mothers * f) \div 100
       IN IF born_today_mothers > 0
          THEN [s EXCEPT !.rng = NextRng(r2),
                         !.pregnant_ewes = @ - born_today_mothers,
                         !.lambs_male = @ + new_lambs \div 2,
                         !.lambs_female = @ + (new_lambs - new_lambs \div 2),
                         !.bcs = @ - (born_today_mothers * 400)
                                     \div Max(1, s.ewes),
                         !.loc.born_today_mothers = born_today_mothers,
                         !.loc.new_lambs = new_lambs]
          ELSE [s EXCEPT !.rng = r2]
  ELSE s

\* model.py 462-465: shearing
Shearing(s) ==
  LET d == Calendar(s.t)
  IN IF d.month = 5 /\ d.day = 15
     THEN Log([s EXCEPT !.loc.day_shearing =
                           @ + s.loc.total_adults * s.cfg.cost_shearing],
              "shearing")
     ELSE s

\* model.py 196-206: _check_barn_capacity; the excess is sold
check_barn_capacity(s) ==
  LET max_bales == ((s.cfg.hay_barn_area_m2 * 30) \div s.cfg.bale_volume_m3)
                   * 1000
      excess == s.hay_stock_bales - max_bales
      income == (excess * (s.cfg.price_bale_sell_summer \div 100)) \div 10
  IN IF s.hay_stock_bales > max_bales
     THEN Log([s EXCEPT !.hay_stock_bales = max_bales,
                        !.loc.inc_hay = @ + income,
                        !.loc.sold_hay = @ + excess], "barn_full")
     ELSE s

\* model.py 467-483: mowing (June 10 and September 10)
Mowing(s) ==
  LET d == Calendar(s.t)
      y0 == get_stochastic_value(s.rng, s.cfg.hay_yield_ha_mean,
                                 s.cfg.hay_yield_ha_std)
      y1 == (y0 * s.grass_mod) \div 100
      yield_h == IF d.month = 9 THEN (y1 * 6) \div 10 ELSE y1
      bales == (s.area_meadow * yield_h) \div 100
      cost == IF s.cfg.machinery_mode = "Services"
              THEN ((s.area_meadow \div 10) * s.cfg.service_mow_ha) \div 10
                   + ((bales \div 10) * s.cfg.service_bale_pcs) \div 100
              ELSE ((s.area_meadow \div 10) * s.cfg.own_mow_fuel_ha) \div 10
                   + ((bales \div 10) * s.cfg.own_bale_material) \div 100
  IN IF d.month \in {6, 9} /\ d.day = 10
     THEN Log(check_barn_capacity(
                [s EXCEPT !.rng = NextRng(s.rng),
                          !.hay_stock_bales = @ + bales,
                          !.loc.day_mow = @ + cost]), "mowing")
     ELSE s

\* model.py 215-218: _perform_forecast
perform_forecast(s) ==
  LET total_adults == s.ewes + s.rams_breeding
      winter_feed_cost == ((180 * s.cfg.feed_intake_ewe
                            * s.cfg.cost_feed_market_mean) \div 10)
                          * total_adults
  IN ((winter_feed_cost + 4000000) \div 100) * (100 + s.cfg.safety_margin)

\* model.py 488-496: planner hay sale of the sales day
Planner(s) ==
  LET projected == s.cash - perform_forecast(s)
      needed == (IntDiv(-projected, s.cfg.price_bale_sell_summer) + 1) * 1000
      sold_hay_planner == Min((s.hay_stock_bales * 4) \div 10, needed)
  IN IF s.cfg.enable_forecasting /\ projected < 0 /\ s.hay_stock_bales > 0
     THEN [s EXCEPT !.loc.inc_hay =
                       @ + (sold_hay_planner
                            * (s.cfg.price_bale_sell_summer \div 100)) \div 10,
                    !.loc.sold_hay = @ + sold_hay_planner,
                    !.hay_stock_bales = @ - sold_hay_planner]
     ELSE s

\* a pricing in which every batch sees the whole quota
get_blended_price_unshared(count, retail_price, quota_remaining, wholesale) ==
  IF count <= 0
  THEN [local_part |-> 0, total_rev |-> 0, quota_remaining |-> quota_remaining]
  ELSE LET local_part == Min(count, quota_remaining)
           wholesale_part == count - local_part
       IN [local_part |-> local_part,
           total_rev |-> local_part * retail_price
                         + wholesale_part * wholesale,
           quota_remaining |-> quota_remaining]

\* model.py 502-510: get_blended_price; total_rev is returned next to the
\* quota that is left, the blended price being total_rev / count
get_blended_price(count, retail_price, quota_remaining, wholesale) ==
  IF count <= 0
  THEN [local_part |-> 0, total_rev |-> 0, quota_remaining |-> quota_remaining]
  ELSE LET local_part == Min(count, quota_remaining)
           wholesale_part == count - local_part
       IN [local_part |-> local_part,
           total_rev |-> local_part * retail_price
                         + wholesale_part * wholesale,
           quota_remaining |-> Max(0, quota_remaining - local_part)]

\* len(old_indices): the ages above the limit
CountOld(ages, limit) == Len(SelectSeq(ages, LAMBDA a : a > limit))

\* python round() of n / 2 (ties to even)
RoundHalf(n) == IF n % 2 = 0 THEN n \div 2
                ELSE IF ((n - 1) \div 2) % 2 = 0 THEN (n - 1) \div 2
                     ELSE (n + 1) \div 2

\* model.py 512-516: sale of the male lambs
SellMales(s) ==
  LET b == get_blended_price(s.lambs_male, s.loc.base_meat_price,
                             s.cfg.market_local_limit,
                             s.cfg.price_meat_wholesale)
  IN [s EXCEPT !.loc.inc_meat = @ + 40 * b.total_rev,
               !.loc.sold_animals = @ + s.lambs_male,
               !.loc.sold_males = s.lambs_male,
               !.loc.local_males = b.local_part,
               !.loc.rev_males = b.total_rev,
               !.loc.quota_remaining = b.quota_remaining,
               !.lambs_male = 0]

\* culling that takes the ewes over the age limit only
CullOldOnly(s) ==
  LET limit == s.cfg.max_ewe_age
      kept == SelectSeq(s.ewe_ages, LAMBDA a : ~(a > limit))
  IN [s EXCEPT !.ewe_ages = kept,
               !.loc.cull_count = s.ewes - Len(kept),
               !.ewes = Len(kept)]

\* model.py 518-541: culling of the ledger
Cull(s) ==
  LET limit == s.cfg.max_ewe_age
      old == CountOld(s.ewe_ages, limit)
      target_cull == (s.ewes * 15) \div 100
      needed_random_cull == Max(0, target_cull - old)
      candidates == SelectSeq(s.ewe_ages, LAMBDA a : ~(a > limit))
      kept == IF Len(candidates) > needed_random_cull
              THEN RemoveRandom(s.rng, candidates, needed_random_cull)
              ELSE candidates
  IN [s EXCEPT !.rng = IF Len(candidates) > needed_random_cull
                       THEN AdvanceRng(s.rng, needed_random_cull)
                       ELSE s.rng,
               !.ewe_ages = kept,
               !.loc.cull_count = s.ewes - Len(kept),
               !.ewes = Len(kept)]

\* promotion of 80% of the female lambs whatever room the barn has left
RenewFemalesUncapped(s) ==
  LET keep == (s.lambs_female * 8) \div 10
      sell_females == s.lambs_female - keep
      b == get_blended_price(sell_females, s.loc.base_meat_price,
                             s.loc.quota_remaining,
                             s.cfg.price_meat_wholesale)
      ages == s.ewe_ages \o [i \in 1 .. keep |-> 219]
  IN [s EXCEPT !.loc.inc_meat = @ + 35 * b.total_rev
                                  + s.loc.cull_count * 60
                                    * s.cfg.price_meat_wholesale,
               !.loc.sold_animals = @ + sell_females + s.loc.cull_count,
               !.loc.sold_females = sell_females,
               !.loc.local_females = b.local_part,
               !.loc.rev_females = b.total_rev,
               !.loc.quota_remaining = b.quota_remaining,
               !.loc.keep = keep,
               !.ewe_ages = ages,
               !.ewes = Len(ages),
               !.lambs_female = 0]

\* model.py 543-566: promotion of female lambs, sale of the rest and of the
\* culled ewes
RenewFemales(s) ==
  LET max_new_capacity == s.cfg.barn_capacity - s.ewes
      potential_keep == (s.lambs_female * 8) \div 10
      keep == Max(0, Min(potential_keep, max_new_capacity))
      sell_females == s.lambs_female - keep
      b == get_blended_price(sell_females, s.loc.base_meat_price,
                             s.loc.quota_remaining,
                             s.cfg.price_meat_wholesale)
      ages == s.ewe_ages \o [i \in 1 .. keep |-> 219]
  IN [s EXCEPT !.loc.inc_meat = @ + 35 * b.total_rev
                                  + s.loc.cull_count * 60
                                    * s.cfg.price_meat_wholesale,
               !.loc.sold_animals = @ + sell_females + s.loc.cull_count,
               !.loc.sold_females = sell_females,
               !.loc.local_females = b.local_part,
               !.loc.rev_females = b.total_rev,
               !.loc.quota_remaining = b.quota_remaining,
               !.loc.keep = keep,
               !.ewe_ages = ages,
               !.ewes = Len(ages),
               !.lambs_female = 0]

\* model.py 568-585: ram ratio, ram replacement, fall vet
Rams(s) ==
  LET needed_rams == Max(1, IntDiv(s.ewes, 30))
      buy_rams == needed_rams - s.rams_breeding
      s1 == IF s.rams_breeding < needed_rams
            THEN Log([s EXCEPT !.loc.day_ram_purchase =
                                  @ + buy_rams * s.cfg.price_ram_purchase,
                               !.rams_breeding = @ + buy_rams], "ram_purchase")
            ELSE s
      replace_count == Max(1, RoundHalf(s1.rams_breeding))
      s2 == IF Calendar(s.t).year % 2 = 0
            THEN Log([s1 EXCEPT !.loc.day_ram_purchase =
                                   @ + replace_count * s.cfg.price_ram_purchase,
                                !.ram_age = 730], "ram_replace")
            ELSE s1
  IN [s2 EXCEPT !.loc.day_vet =
        @ + (s2.ewes + s2.rams_breeding)
            * ((s.cfg.cost_vet_base * s.loc.vet_multiplier) \div 2)]

\* model.py 485-587: sales day (October 15)
Sales(s) ==
  LET d == Calendar(s.t)
  IN IF d.month = 10 /\ d.day = 15
     THEN Log(Rams(RenewFemales(Cull(SellMales(Planner(
                [s EXCEPT !.loc.sale_day = TRUE]))))), "sale")
     ELSE s

\* one subsidy payment, share in 1/10
SubsidyPayment(s, share) ==
  LET per_ha == get_stochastic_value(s.rng, s.cfg.subsidy_ha_mean, 20000)
  IN [s EXCEPT !.rng = NextRng(s.rng),
               !.loc.inc_subsidy =
                  @ + ((s.cfg.land_area * per_ha
                        + s.ewes * s.cfg.subsidy_sheep_mean) \div 10) * share]

\* model.py 589-593: subsidies (November 20 and April 20)
Subsidies(s) ==
  LET d == Calendar(s.t)
  IN IF d.month = 11 /\ d.day = 20 THEN SubsidyPayment(s, 7)
     ELSE IF d.month = 4 /\ d.day = 20 THEN SubsidyPayment(s, 3)
     ELSE s

\* model.py 595-598: land and building tax (December 31)
LandTax(s) ==
  LET d == Calendar(s.t)
  IN IF d.month = 12 /\ d.day = 31
     THEN [s EXCEPT !.loc.var_cost =
              @ + s.cfg.land_area * s.cfg.tax_land_ha
                + (s.cfg.barn_area_m2 + s.cfg.hay_barn_area_m2)
                  * s.cfg.tax_building_m2]
     ELSE s

\* model.py 600-609: labor; hours in 1/10 h
Labor(s) ==
  LET year_hours == s.loc.total_adults * s.cfg.labor_hours_per_ewe_year
                    + s.cfg.land_area * s.cfg.labor_hours_per_ha_year
                    + s.cfg.labor_hours_fix_year
                    + (s.cfg.barn_area_m2 + s.cfg.hay_barn_area_m2)
                      * s.cfg.labor_hours_barn_m2_year
  IN [s EXCEPT !.loc.daily_hours = year_hours \div 365,
               !.loc.labor_val =
                  IF s.cfg.include_labor_cost
                  THEN ((year_hours \div 10) * s.cfg.wage_hourly) \div 365
                  ELSE 0]

\* model.py 611-615: shocks
Shocks(s) ==
  LET r2 == NextRng(s.rng)
  IN IF RandomBelow(s.rng, s.cfg.shock_prob_daily)
     THEN Log([s EXCEPT !.rng = NextRng(r2),
                        !.loc.shock_val =
                           get_stochastic_value(r2, s.cfg.shock_cost_mean,
                                                s.cfg.shock_cost_std)],
              "shock")
     ELSE [s EXCEPT !.rng = r2]

\* model.py 208-213: _get_seasonal_overhead
get_seasonal_overhead(cfg, month) ==
  LET base == cfg.overhead_base_year \div 365
      total_m2 == cfg.barn_area_m2 + cfg.hay_barn_area_m2
      barn_maint == (total_m2 * cfg.barn_maintenance_m2_year) \div 365
  IN (IF month \in {6, 7, 8} THEN (base * 15) \div 10 ELSE (base * 8) \div 10)
     + barn_maint

\* model.py 617-623: finalize the cash of the day
Finalize(s) ==
  LET l == s.loc
      var_cost == l.var_cost + l.day_vet + l.day_mow + l.day_shearing
                  + l.day_ram_purchase + l.day_machinery + l.day_admin
      daily_overhead == get_seasonal_overhead(s.cfg, Calendar(s.t).month)
      income == l.inc_meat + l.inc_hay + l.inc_subsidy
      total_out == l.feed_cost + var_cost + daily_overhead + l.labor_val
                   + l.shock_val
  IN [s EXCEPT !.loc.var_cost = var_cost,
               !.loc.daily_overhead = daily_overhead,
               !.loc.income = income,
               !.loc.total_out = total_out,
               !.cash = @ + income - total_out]

\* daily mortality probability from a yearly rate
DailyProb(mean, factor) == (mean * factor) \div 365

\* a removal from the ledger that leaves the count as it was
EweMortalityNoSync(s) ==
  LET mort_prob_ewe == DailyProb(s.cfg.mortality_ewe_mean,
                                 IF s.bcs < 2000 THEN 5
                                 ELSE IF s.bcs < 2500 THEN 2 ELSE 1)
      deaths_ewes == Binomial(s.rng, s.ewes, mort_prob_ewe)
      r2 == BinomialRng(s.rng, s.ewes, mort_prob_ewe)
      k == Min(deaths_ewes, Len(s.ewe_ages))
      ages == RemoveRandom(r2, s.ewe_ages, k)
  IN IF deaths_ewes > 0 /\ s.ewes > 0
     THEN [s EXCEPT !.rng = AdvanceRng(r2, k),
                    !.ewe_ages = ages,
                    !.loc.deaths_ewes = deaths_ewes]
     ELSE [s EXCEPT !.rng = r2]

\* model.py 625-630, 650-654: mortality of the breeding females
EweMortality(s) ==
  LET mort_prob_ewe == DailyProb(s.cfg.mortality_ewe_mean,
                                 IF s.bcs < 2000 THEN 5
                                 ELSE IF s.bcs < 2500 THEN 2 ELSE 1)
      deaths_ewes == Binomial(s.rng, s.ewes, mort_prob_ewe)
      r2 == BinomialRng(s.rng, s.ewes, mort_prob_ewe)
      k == Min(deaths_ewes, Len(s.ewe_ages))
      ages == RemoveRandom(r2, s.ewe_ages, k)
  IN IF deaths_ewes > 0 /\ s.ewes > 0
     THEN [s EXCEPT !.rng = AdvanceRng(r2, k),
                    !.ewe_ages = ages,
                    !.ewes = Len(ages),
                    !.loc.deaths_ewes = deaths_ewes]
     ELSE [s EXCEPT !.rng = r2]

\* model.py 656-659: mortality of the lambs
LambMortality(s) ==
  LET mort_prob_lamb == DailyProb(s.cfg.mortality_lamb_mean,
                                  IF s.bcs < 2500 THEN 2 ELSE 1)
      r2 == BinomialRng(s.rng, s.lambs_male, mort_prob_lamb)
      r3 == BinomialRng(r2, s.lambs_female, mort_prob_lamb)
  IN IF s.lambs_male + s.lambs_female > 0
     THEN [s EXCEPT
             !.rng = r3,
             !.lambs_male =
                Max(0, @ - Binomial(s.rng, s.lambs_male, mort_prob_lamb)),
             !.lambs_female =
                Max(0, @ - Binomial(r2, s.lambs_female, mort_prob_lamb))]
     ELSE s

\* a day that passes without its record
WriteHistoryNoRecord(s) == [s EXCEPT !.t = @ + 1]

\* model.py 661-694: the DailyRecord of day t
WriteHistory(s) ==
  LET l == s.loc
  IN [s EXCEPT
        !.t = @ + 1,
        !.row =
          [ Cash |-> s.cash, Ewes |-> s.ewes,
            Lambs |-> s.lambs_male + s.lambs_female,
            Lambs_Male |-> s.lambs_male, Lambs_Female |-> s.lambs_female,
            Exp_Variable |-> l.day_vet + l.day_mow + l.day_shearing
                             + l.day_ram_purchase + l.day_machinery,
            Total_Animals |-> s.ewes + s.rams_breeding + s.lambs_male
                              + s.lambs_female,
            Hay_Stock |-> s.hay_stock_bales, Income |-> l.income,
            Exp_Feed |-> l.feed_cost, Exp_Vet |-> l.day_vet,
            Exp_Machinery |-> l.day_machinery, Exp_Mow |-> l.day_mow,
            Exp_Shearing |-> l.day_shearing,
            Exp_RamPurchase |-> l.day_ram_purchase,
            Exp_Admin |-> l.day_admin, Exp_Labor |-> l.labor_val,
            Labor_Hours |-> l.daily_hours,
            Exp_Overhead |-> l.daily_overhead, Exp_Shock |-> l.shock_val,
            BCS |-> s.bcs, Meat_Price |-> l.base_meat_price,
            Pasture_Health |-> s.pasture_health,
            Perceived_BCS |-> s.perceived_bcs,
            Weather_Regime |-> s.weather_regime,
            Is_Winter |-> IF s.is_winter THEN 1 ELSE 0,
            Is_Drought |-> IF l.is_drought THEN 1 ELSE 0,
            Inc_Meat |-> l.inc_meat, Inc_Hay |-> l.inc_hay,
            Inc_Subsidy |-> l.inc_subsidy,
            Sold_Animals |-> l.sold_animals, Sold_Hay |-> l.sold_hay,
            Feed_Source |-> l.feed_source ]]

\* model.py 220-694: step(t), the phases in the order of the source
Step(s) ==
  WriteHistory(LambMortality(EweMortality(Finalize(Shocks(Labor(LandTax(
  Subsidies(Sales(Mowing(Shearing(Lambing(Gestation(Mating(Admin(Machinery(
  VetMultiplier(Feeding(Reorder(Drought(Demand(FeedArrivals(SeasonControl(
  MeatPrice(WeatherRegime(Perception(Aging(s)))))))))))))))))))))))))))

\* model.py 226-300: the part of step(t) that precedes the reorder point
BeforeReorder(s) ==
  Drought(Demand(FeedArrivals(SeasonControl(MeatPrice(WeatherRegime(
  Perception(Aging(s))))))))

\* model.py 226-440: the part of step(t) that precedes the gestation risk
BeforeGestation(s) ==
  Mating(Admin(Machinery(VetMultiplier(Feeding(Reorder(BeforeReorder(s)))))))

(* --------------------------- explored inputs --------------------------- *)
\* a small family farm: the herd, the land and the barn are scaled down
SmallFarm ==
  [FarmConfig EXCEPT !.land_area = 5, !.meadow_share = 40,
                     !.barn_capacity = 6, !.initial_ewes = 4,
                     !.barn_area_m2 = 20, !.hay_barn_area_m2 = 50,
                     !.capital = 20000000, !.market_local_limit = 2,
                     !.max_ewe_age = 1460,
                     !.mortality_ewe_mean = 2000]

\* one simulated year of the small farm
SmallFarmYear == [SmallFarm EXCEPT !.sim_years = 1]

\* no capital and no hay on an overstocked pasture without meadows: no feed
\* can be bought or mown, long winters
PoorFarm ==
  [FarmConfig EXCEPT !.land_area = 5, !.meadow_share = 0,
                     !.barn_capacity = 60, !.initial_ewes = 60,
                     !.barn_area_m2 = 150, !.hay_barn_area_m2 = 50,
                     !.capital = 0, !.initial_hay_bales = 0,
                     !.winter_len_global_mod = 150]

\* a larger herd on little land, hay in small 15 kg bales
SmallBales ==
  [SmallFarm EXCEPT !.initial_ewes = 36, !.barn_capacity = 40,
                    !.land_area = 5, !.meadow_share = 20,
                    !.bale_weight_kg = 15, !.bale_volume_m3 = 1,
                    !.initial_hay_bales = 400000,
                    !.price_bale_sell_winter = 8000,
                    !.price_bale_sell_summer = 4000,
                    !.hay_yield_ha_mean = 200000,
                    !.hay_yield_ha_std = 50000,
                    !.service_bale_pcs = 1000,
                    !.capital = 30000000]

\* owned machinery, paid labor, dry climate with an added drought risk
OwnDry ==
  [SmallFarm EXCEPT !.machinery_mode = "Own", !.climate_profile = "Dry",
                    !.drought_prob_add = 1000, !.include_labor_cost = TRUE,
                    !.machinery_failure_prob_daily = 10,
                    !.capital = 80000000]

\* the last three farms: a herd of 16 whose owner notices a change of
\* condition only after a month; an overstocked farm with money for hay,
\* next-day delivery and frequent droughts; a starving herd of 72
Configs ==
  { SmallFarm, SmallFarmYear, PoorFarm, SmallBales, OwnDry,
    [SmallFarm EXCEPT !.initial_ewes = 16, !.barn_capacity = 40,
                      !.delay_bcs_perception = 30],
    [PoorFarm EXCEPT !.capital = 100000000, !.initial_hay_bales = 100000,
                     !.delay_feed_delivery = 1, !.drought_prob_add = 5000],
    [PoorFarm EXCEPT !.initial_ewes = 72, !.barn_capacity = 72] }

Seeds == 0 .. NumSeeds - 1

(* ------------------------- single run (app.py) ------------------------- *)
NoRun == [pc |-> "none"]

\* app.py 1390-1391: np.random.seed(sim_seed); model = FarmModel(cfg)
Init ==
  \E cfg \in Configs, sim_seed \in Seeds :
     /\ run1 = FarmModel(cfg, SeedRng(0, sim_seed))
     /\ run2 = NoRun

\* model.py 696-699: one iteration of the loop of run()
RunStep ==
  /\ run1.pc = "run"
  /\ run1.t < run1.total_steps
  /\ run1.t < MaxDays
  /\ run1' = Step(run1)
  /\ UNCHANGED run2

\* model.py 701-705: the loop is over, the table is returned
RunDone ==
  /\ run1.pc = "run"
  /\ run1.t = run1.total_steps
  /\ run1' = [run1 EXCEPT !.pc = "done"]
  /\ UNCHANGED run2

Next == RunStep \/ RunDone

Spec == Init /\ [][Next]_vars

(* ------------------- two executions side by side ----------------------- *)
\* Two processes execute the same driver; their steps are taken together so
\* that the rows they write for the same day can be compared.

\* the state of a process before FarmModel is constructed
Process(rng, kwargs, sim_seed, i, sensitivity_on, sens_selection) ==
  [ pc |-> "seed", rng |-> rng, kwargs |-> kwargs, sim_seed |-> sim_seed,
    i |-> i, sensitivity_on |-> sensitivity_on,
    sens_selection |-> sens_selection, sens_range_pct |-> 20 ]

\* the fields of the driver that outlive the construction of the model
Driver(p) ==
  [ kwargs |-> p.kwargs, sim_seed |-> p.sim_seed, i |-> p.i,
    sensitivity_on |-> p.sensitivity_on,
    sens_selection |-> p.sens_selection,
    sens_range_pct |-> p.sens_range_pct ]

\* app.py 1390: np.random.seed(sim_seed)
AppSeedOf(p) == [p EXCEPT !.rng = SeedRng(p.rng, p.sim_seed),
                          !.pc = "construct"]

\* app.py 1391: model = FarmModel(cfg)
ConstructOf(p) == FarmModel(p.kwargs, p.rng) @@ Driver(p)

AppSeed ==
  /\ run1.pc = "seed" /\ run2.pc = "seed"
  /\ run1' = AppSeedOf(run1)
  /\ run2' = AppSeedOf(run2)

AppConstruct ==
  /\ run1.pc = "construct" /\ run2.pc = "construct"
  /\ run1' = ConstructOf(run1)
  /\ run2' = ConstructOf(run2)

\* model.py 696-699: one iteration of run() in both processes
PairStep ==
  /\ run1.pc = "run" /\ run2.pc = "run"
  /\ run1.t < run1.total_steps /\ run2.t < run2.total_steps
  /\ run1.t < MaxDays
  /\ run1' = Step(run1)
  /\ run2' = Step(run2)

\* model.py 701-705: both tables are returned
PairDone ==
  /\ run1.pc = "run" /\ run2.pc = "run"
  /\ run1.t = run1.total_steps /\ run2.t = run2.total_steps
  /\ run1' = [run1 EXCEPT !.pc = "done"]
  /\ run2' = [run2 EXCEPT !.pc = "done"]

\* states in which numpy's global stream may be when the script is rerun
PreStates == { 0, 4711, 50021 }

RerunConfigs == { SmallFarmYear }

\* two reruns of the single simulation with the same inputs and the same seed
InitRerun ==
  \E cfg \in RerunConfigs, sim_seed \in Seeds, pre1 \in PreStates,
     pre2 \in PreStates :
     /\ run1 = Process(pre1, cfg, sim_seed, 0, FALSE, << >>)
     /\ run2 = Process(pre2, cfg, sim_seed, 0, FALSE, << >>)

NextRerun == AppSeed \/ AppConstruct \/ PairStep \/ PairDone

SpecRerun == InitRerun /\ [][NextRerun]_vars

(* ------------------------ Monte Carlo replication ---------------------- *)
\* app.py 1072: np.random.uniform(1.0 - sens_range_pct, 1.0 + sens_range_pct)
\* in 1/1000, sens_range_pct in 1/100
UniformFactor(r, pct) == 1000 - 10 * pct + (20 * pct * Raw(r)) \div 4096

\* app.py 1074-1083: one parameter multiplied by the factor
PerturbKey(kwargs, key, factor) ==
  IF key = "price_bale_sell_winter"
  THEN [kwargs EXCEPT
          !.price_bale_sell_winter = (@ * factor) \div 1000,
          !.price_bale_sell_summer = (@ * factor) \div 1000]
  ELSE [kwargs EXCEPT ![key] = (@ * factor) \div 1000]

RECURSIVE Perturb(_, _, _, _)
\* app.py 1069-1083: the loop over the selected parameters
Perturb(r, kwargs, selection, pct) ==
  IF selection = << >> THEN [rng |-> r, kwargs |-> kwargs]
  ELSE Perturb(NextRng(r),
               PerturbKey(kwargs, Head(selection), UniformFactor(r, pct)),
               Tail(selection), pct)

\* app.py 1062-1063: current_seed = sim_seed + i; np.random.seed(current_seed)
MCSeedOf(p) == [p EXCEPT !.rng = SeedRng(p.rng, p.sim_seed + p.i),
                         !.pc = "perturb"]

\* app.py 1065-1083: sensitivity perturbation of the copy of run_kwargs
MCPerturbOf(p) ==
  LET q == IF p.sensitivity_on /\ p.sens_selection # << >>
           THEN Perturb(p.rng, p.kwargs, p.sens_selection, p.sens_range_pct)
           ELSE [rng |-> p.rng, kwargs |-> p.kwargs]
  IN [p EXCEPT !.rng = q.rng, !.kwargs = q.kwargs, !.pc = "reseed"]

\* app.py 1085-1087: re-seed
MCReseedOf(p) == [p EXCEPT !.rng = SeedRng(p.rng, p.sim_seed + p.i),
                           !.pc = "construct"]

MCSeed ==
  /\ run1.pc = "seed" /\ run2.pc = "seed"
  /\ run1' = MCSeedOf(run1)
  /\ run2' = MCSeedOf(run2)

MCPerturb ==
  /\ run1.pc = "perturb" /\ run2.pc = "perturb"
  /\ run1' = MCPerturbOf(run1)
  /\ run2' = MCPerturbOf(run2)

MCReseed ==
  /\ run1.pc = "reseed" /\ run2.pc = "reseed"
  /\ run1' = MCReseedOf(run1)
  /\ run2' = MCReseedOf(run2)

\* app.py 1089-1093: mc_cfg = FarmConfig(**current_run_kwargs); FarmModel
MCConstruct ==
  /\ run1.pc = "construct" /\ run2.pc = "construct"
  /\ run1' = ConstructOf(run1)
  /\ run2' = ConstructOf(run2)

NextMC == MCSeed \/ MCPerturb \/ MCReseed \/ MCConstruct \/ PairStep
          \/ PairDone

\* replications of one scenario
Replications == 0 .. 1

\* parameter selections of the sensitivity analysis (keys of sens_map)
Selections ==
  { << "price_meat_avg", "own_mow_fuel_ha" >>,
    << "rain_growth_global_mod" >>,
    << "price_bale_sell_winter" >>,
    << "fertility_mean", "market_local_limit" >> }

\* scenarios of the Monte Carlo runs (custom scenarios of a small farm)
ScenarioServices == SmallFarmYear
ScenarioOwn == [SmallFarmYear EXCEPT !.machinery_mode = "Own"]
ScenarioHerd == [SmallFarmYear EXCEPT !.initial_ewes = 6]
ScenarioBales == [SmallBales EXCEPT !.sim_years = 1]
Scenarios == { ScenarioServices, ScenarioOwn, ScenarioHerd, ScenarioBales }

\* replication i of a scenario without and with the sensitivity analysis
InitSens ==
  \E sc \in Scenarios, sim_seed \in Seeds, i \in Replications,
     sel \in Selections :
     /\ run1 = Process(0, sc, sim_seed, i, FALSE, sel)
     /\ run2 = Process(0, sc, sim_seed, i, TRUE, sel)

SpecSens == InitSens /\ [][NextMC]_vars

\* replication i of two different scenarios
InitScen ==
  \E sc1 \in Scenarios, sc2 \in Scenarios, sim_seed \in Seeds,
     i \in Replications :
     /\ sc1 # sc2
     /\ run1 = Process(0, sc1, sim_seed, i, FALSE, << >>)
     /\ run2 = Process(0, sc2, sim_seed, i, FALSE, << >>)

SpecScen == InitScen /\ [][NextMC]_vars

(* -------------------- the Monte Carlo loop (app.py) -------------------- *)
\* The two nested loops of the Monte Carlo page: scenarios, and replications
\* of a scenario. A replication is run for its first LayerDays days.
LayerDays == 2

\* app.py 1029-1046 and 1002: the inputs of the page. base_kwargs comes from
\* the sidebar, scenarios are the overrides of the selected scenarios in the
\* order of the loop, labor_override is the radio button
InitLayer ==
  \E labor_on \in BOOLEAN,
     sc1 \in { [machinery_mode |-> "Own", include_labor_cost |-> TRUE],
               [initial_ewes |-> 6, price_meat_avg |-> 9000] },
     sc2 \in { [include_labor_cost |-> FALSE, market_local_limit |-> 10],
               [include_labor_cost |-> TRUE] },
     labor_override \in { "Dle scenare", "Vse ZAPNUTO", "Vse VYPNUTO" },
     sensitivity_on \in BOOLEAN, sens_selection \in Selections,
     sim_seed \in Seeds :
     /\ run1 = [ pc |-> "scenario", rng |-> 0,
                 base_kwargs |->
                    [SmallFarmYear EXCEPT !.include_labor_cost = labor_on],
                 scenarios |-> << sc1, sc2 >>,
                 labor_override |-> labor_override,
                 run_kwargs |-> << >>, kwargs |-> << >>,
                 sim_seed |-> sim_seed, i |-> 0, n_runs |-> 2,
                 sensitivity_on |-> sensitivity_on,
                 sens_selection |-> sens_selection, sens_range_pct |-> 20 ]
     /\ run2 = NoRun

\* app.py 1048-1057: run_kwargs of the next scenario
LayerScenario ==
  /\ run1.pc = "scenario"
  /\ run1.scenarios # << >>
  /\ LET sc_params == Head(run1.scenarios)
         merged == sc_params @@ run1.base_kwargs
     IN run1' = [run1 EXCEPT
                   !.run_kwargs =
                      IF run1.labor_override = "Vse ZAPNUTO"
                      THEN [merged EXCEPT !.include_labor_cost = TRUE]
                      ELSE IF run1.labor_override = "Vse VYPNUTO"
                      THEN [merged EXCEPT !.include_labor_cost = FALSE]
                      ELSE merged,
                   !.scenarios = Tail(@), !.i = 0, !.pc = "seed"]
  /\ UNCHANGED run2

\* the perturbation written into run_kwargs itself
LayerReplicateInPlace ==
  /\ run1.pc = "seed"
  /\ LET p == MCReseedOf(MCPerturbOf(
                 [MCSeedOf(run1) EXCEPT !.kwargs = run1.run_kwargs]))
     IN run1' = FarmModel(p.kwargs, p.rng) @@ [p EXCEPT !.run_kwargs = p.kwargs]
  /\ UNCHANGED run2

\* app.py 1059-1091: seed, copy of run_kwargs, perturbation of the copy,
\* re-seed, construction of the configuration and of the model
LayerReplicate ==
  /\ run1.pc = "seed"
  /\ LET p == MCReseedOf(MCPerturbOf(
                 [MCSeedOf(run1) EXCEPT !.kwargs = run1.run_kwargs]))
     IN run1' = FarmModel(p.kwargs, p.rng) @@ p
  /\ UNCHANGED run2

\* model.py 696-699: one iteration of the loop of run()
LayerStep ==
  /\ run1.pc = "run"
  /\ run1.t < LayerDays
  /\ run1' = Step(run1)
  /\ UNCHANGED run2

\* app.py 1059, 1048: the replication is over; the next replication of the
\* scenario, the next scenario or the end of the loops
LayerNext ==
  /\ run1.pc = "run"
  /\ run1.t = LayerDays
  /\ run1' = [ pc |-> IF run1.i + 1 < run1.n_runs THEN "seed"
                      ELSE IF run1.scenarios # << >> THEN "scenario"
                      ELSE "end",
               rng |-> run1.rng, base_kwargs |-> run1.base_kwargs,
               scenarios |-> run1.scenarios,
               labor_override |-> run1.labor_override,
               run_kwargs |-> run1.run_kwargs, kwargs |-> run1.kwargs,
               sim_seed |-> run1.sim_seed, i |-> run1.i + 1,
               n_runs |-> run1.n_runs,
               sensitivity_on |-> run1.sensitivity_on,
               sens_selection |-> run1.sens_selection,
               sens_range_pct |-> run1.sens_range_pct ]
  /\ UNCHANGED run2

NextLayer == LayerScenario \/ LayerReplicate \/ LayerStep \/ LayerNext

SpecLayer == InitLayer /\ [][NextLayer]_vars

(* ------------------------ the sales day on its own --------------------- *)
\* The tiered pricing of the sales day applied to herds of chosen sizes: the
\* three batches (male lambs, culled ewes, female lambs) are priced one after
\* the other as in step().

\* lamb counts that enter the sales day
SaleBatches == { 0, 10, 30, 40, 92, 100 }

\* local quotas (market_local_limit)
Quotas == { 0, 40, 50 }

\* barn capacities: they bound the number of female lambs that are kept
SaleCapacities == { 150, 200 }

\* October 15 of the first year as a day index
SaleDay == 287

\* the model on the morning of the sales day, the meat price of the day drawn
InitSale ==
  \E m \in SaleBatches, f \in SaleBatches, q \in Quotas,
     cap \in SaleCapacities, sim_seed \in Seeds :
     /\ run1 = MeatPrice(
                 [FarmModel([FarmConfig EXCEPT !.market_local_limit = q,
                                               !.barn_capacity = cap],
                            SeedRng(0, sim_seed))
                    EXCEPT !.pc = "sell_males", !.t = SaleDay,
                           !.ewe_ages = [i \in 1 .. 150 |-> 1095 + SaleDay],
                           !.lambs_male = m, !.lambs_female = f])
     /\ run2 = NoRun

\* model.py 485-516: planner, quota set, male lambs sold
SaleMales ==
  /\ run1.pc = "sell_males"
  /\ run1' = [SellMales(Planner([run1 EXCEPT !.loc.sale_day = TRUE]))
                EXCEPT !.pc = "cull"]
  /\ UNCHANGED run2

\* model.py 518-541: culling
SaleCull ==
  /\ run1.pc = "cull"
  /\ run1' = [Cull(run1) EXCEPT !.pc = "renew"]
  /\ UNCHANGED run2

\* model.py 543-566: promotion, female lambs and culled ewes sold
SaleFemales ==
  /\ run1.pc = "renew"
  /\ run1' = [RenewFemales(run1) EXCEPT !.pc = "sold"]
  /\ UNCHANGED run2

NextSale == SaleMales \/ SaleCull \/ SaleFemales

SpecSale == InitSale /\ [][NextSale]_vars

(* ----------------------- the renewal of the herd ----------------------- *)
\* largest ledger on the morning of the sales day
MaxLedger == 20

\* the model on the morning of the sales day with a ledger of n ewes of which
\* the first old are over the age limit, the next one is exactly at the limit
\* and the others are younger; m male and f female lambs; barn capacity cap
InitRenewal ==
  \E n \in { 0, 1, 2, 6, 7, 13, 14, MaxLedger },
     old \in { 0, 1, 2, 4, MaxLedger },
     m \in { 0, 3 }, f \in { 0, 1, 5, 9 }, cap \in { 5, 12, 40 },
     sim_seed \in Seeds :
     /\ old <= n
     /\ run1 = MeatPrice(
                 [FarmModel([FarmConfig EXCEPT !.barn_capacity = cap],
                            SeedRng(0, sim_seed))
                    EXCEPT !.pc = "sell_males", !.t = SaleDay,
                           !.ewes = n,
                           !.ewe_ages =
                              [i \in 1 .. n |->
                                 IF i <= old THEN FarmConfig.max_ewe_age + i
                                 ELSE FarmConfig.max_ewe_age
                                        - 100 * (i - old - 1)],
                           !.lambs_male = m, !.lambs_female = f])
     /\ run2 = NoRun

SpecRenewal == InitRenewal /\ [][NextSale]_vars

(* -------------------------- runs of one year --------------------------- *)
\* one ewe without hay or money, too old to be kept at the autumn sale
LoneEwe ==
  [SmallFarmYear EXCEPT !.initial_ewes = 1, !.meadow_share = 0,
                        !.max_ewe_age = 1095,
                        !.capital = 0, !.initial_hay_bales = 0,
                        !.winter_len_global_mod = 150]

\* hay in small bales that is delivered on the day of the order
PromptBales == [SmallBales EXCEPT !.sim_years = 1, !.delay_feed_delivery = 0]

\* every explored farm with a horizon of one year; a mountain farm with
\* frequent droughts whose winter lasts into June; an overstocked farm that
\* buys its hay and has a hay barn for four bales
YearConfigs ==
  { [cfg EXCEPT !.sim_years = 1] : cfg \in Configs }
  \cup { LoneEwe, PromptBales,
         [SmallFarmYear EXCEPT !.climate_profile = "Mountain",
                               !.winter_len_global_mod = 150,
                               !.drought_prob_add = 5000],
         [PoorFarm EXCEPT !.sim_years = 1, !.capital = 100000000,
                          !.initial_hay_bales = 4000,
                          !.hay_barn_area_m2 = 2,
                          !.delay_feed_delivery = 1] }
  \cup { [SmallFarmYear EXCEPT !.delay_bcs_perception = delay] :
            delay \in {1, 30} }

InitYear ==
  \E cfg \in YearConfigs, sim_seed \in Seeds :
     /\ run1 = FarmModel(cfg, SeedRng(0, sim_seed))
     /\ run2 = NoRun

\* model.py 698: the loop of run() has days left
LoopGuard ==
  run1.pc = "run" /\ run1.t < run1.total_steps /\ run1.t < MaxDays

\* model.py 696-705: run() is a sequential loop, the interpreter keeps
\* executing it. The weak fairness of RunStep is written out with LoopGuard,
\* the condition under which RunStep is enabled (a step always advances t).
SpecYear ==
  /\ InitYear /\ [][Next]_vars
  /\ ([]<>(~LoopGuard) \/ []<><<RunStep>>_vars)
  /\ WF_vars(RunDone)

(* ------------------------- the calendar on its own --------------------- *)
\* app.py 1329: the horizon of the application, sim_years
AppYears == 5

\* model.py 175-180: the dates of a run of 1 to AppYears years
InitCalendar ==
  \E sim_years \in 1 .. AppYears :
     /\ run1 = [ pc |-> "calendar", total_steps |-> sim_years * 365,
                 t |-> 0, date |-> Calendar(0) ]
     /\ run2 = NoRun

\* model.py 220-224: step(t) reads the date of day t
CalendarDay ==
  /\ run1.pc = "calendar"
  /\ run1.t + 1 < run1.total_steps
  /\ run1' = [run1 EXCEPT !.t = @ + 1, !.date = Calendar(run1.t + 1)]
  /\ UNCHANGED run2

SpecCalendar == InitCalendar /\ [][CalendarDay]_vars

(* ------------------------ the admin penalty on its own ----------------- *)
\* The power law of the admin penalty evaluated for herds of chosen sizes.
\* (max(1, N) / 50) ^ (h / 2) is compared exactly through its square
\* max(1, N) ^ h (times the constant 50 ^ h), an integer.

RECURSIVE PowInt(_, _)
\* b ^ k
PowInt(b, k) == IF k <= 0 THEN 1 ELSE b * PowInt(b, k - 1)

\* a power law whose exponent is lost
AdminPowerRoot(total_animals, k) == PowInt(Max(1, total_animals), 1)

\* model.py 422: max(1, total_animals) ^ k, the base of the power law raised
\* to a whole exponent
AdminPower(total_animals, k) == PowInt(Max(1, total_animals), k)

\* largest herd for which the squares of the exponent 1.5 are compared
MaxHerd == 24

\* admin_complexity_factor above 1, in halves: 1.5, 2.0, 3.0
AdminFactors == { 3, 4, 6 }

\* herd sizes explored for a factor
HerdSizes(h) == IF h % 2 = 1 THEN 1 .. MaxHerd ELSE 1 .. 4 * MaxHerd

\* a day on which the herd counts N animals
InitAdmin ==
  \E h \in AdminFactors : \E N \in HerdSizes(h) :
     /\ run1 = [ pc |-> "admin", total_animals |-> N,
                 admin_complexity_factor |-> h,
                 admin_scale |-> << >>, admin_power |-> << >> ]
     /\ run2 = NoRun

\* model.py 419-423 for N, N + 1 and N + 2 animals
AdminDay ==
  /\ run1.pc = "admin"
  /\ LET N == run1.total_animals
         h == run1.admin_complexity_factor
         k == IF h % 2 = 1 THEN h ELSE h \div 2
     IN run1' = [run1 EXCEPT
                   !.pc = "costed",
                   !.admin_scale = [i \in 1 .. 3 |-> AdminScale(N + i - 1, h)],
                   !.admin_power = [i \in 1 .. 3 |-> AdminPower(N + i - 1, k)]]
  /\ UNCHANGED run2

NextAdmin == AdminDay

SpecAdmin == InitAdmin /\ [][NextAdmin]_vars

(* ------------------- configurations outside the domain ----------------- *)
\* model.py 142-157: base_drought of the climate profile, 1/10000
BaseDrought(cfg) == IF cfg.climate_profile = "Dry" THEN 200
                    ELSE IF cfg.climate_profile = "Mountain" THEN 10
                    ELSE IF cfg.climate_profile = "UI_Custom" THEN 0
                    ELSE 50

\* FarmConfig(...) with a negative land area
NegativeLand == [SmallFarmYear EXCEPT !.land_area = -5]

\* FarmConfig(...) with a barn of capacity zero
ZeroCapacity == [SmallFarmYear EXCEPT !.barn_capacity = 0]

\* FarmConfig(...) whose drought probability exceeds 1 after the addition
DroughtOverOne == [SmallFarmYear EXCEPT !.drought_prob_add = 10000]

\* FarmConfig(...) whose drought probability is negative after the addition
DroughtBelowZero == [SmallFarmYear EXCEPT !.drought_prob_add = -100]

AnyConfigs == { SmallFarmYear, NegativeLand, ZeroCapacity, DroughtOverOne,
                DroughtBelowZero }

\* app.py 1390-1391 with a configuration that nothing has checked
InitAny ==
  \E cfg \in AnyConfigs, sim_seed \in Seeds :
     /\ run1 = FarmModel(cfg, SeedRng(0, sim_seed))
     /\ run2 = NoRun

SpecAny == InitAny /\ [][Next]_vars

(* ------------------------------- claims -------------------------------- *)

\* both executions have constructed their model
BothRunning == run1.pc \in {"run", "done"} /\ run2.pc \in {"run", "done"}

SensitivitySameWeather ==
  BothRunning =>
     /\ run1.row.Weather_Regime = run2.row.Weather_Regime
     /\ run1.row.Is_Winter = run2.row.Is_Winter
     /\ run1.row.Is_Drought = run2.row.Is_Drought
     /\ (run1.cfg.price_meat_avg = run2.cfg.price_meat_avg
           => run1.row.Meat_Price = run2.row.Meat_Price)

\* C3 as stated: two replications with the same seed and different scenarios
\* see the same weather regime, season flag and drought flag on every day.
ScenariosSameWeather ==
  BothRunning =>
     /\ run1.row.Weather_Regime = run2.row.Weather_Regime
     /\ run1.row.Is_Winter = run2.row.Is_Winter
     /\ run1.row.Is_Drought = run2.row.Is_Drought


\* C4: in every state of a run (after construction and after every step)
\* the breeding-female count equals the length of the age ledger, and the
\* recorded total animal count is not negative.
HerdLedgerConsistent ==
  run1.pc \in {"run", "done"} =>
     /\ run1.ewes = Len(run1.ewe_ages)
     /\ run1.row.Total_Animals >= 0

\* C4 witness: the sales day has culled and promoted females in a run in
\* which mortality has already shortened the ledger
HerdLedgerWitness ==
  /\ run1.pc = "run"
  /\ run1.loc.sale_day /\ run1.loc.cull_count > 0 /\ run1.loc.keep > 0
  /\ run1.ewes < run1.cfg.initial_ewes - run1.loc.cull_count + run1.loc.keep
  /\ run1.ewes = Len(run1.ewe_ages)

\* C5: after every step the body condition score lies in [1.5, 4.0].
BcsBounded ==
  (run1.pc \in {"run", "done"} /\ run1.t > 0) =>
     (1500 <= run1.bcs /\ run1.bcs <= 4000)

\* C6: after every step pasture health lies in [0.1, 1.0].
PastureHealthBounded ==
  run1.pc \in {"run", "done"} =>
     (1000 <= run1.pasture_health /\ run1.pasture_health <= 10000)

\* C6 witness: a grazing day without any grass (pressure 10.0) has degraded
\* the pasture down to the floor
PastureHealthWitness ==
  /\ run1.pc = "run"
  /\ run1.loc.grazing /\ run1.loc.pressure = 1000
  /\ run1.pasture_health = 1000

\* C7: the weather regime lies in [0.5, 1.5] after every step, and a step
\* that starts with a running timer leaves the regime as it is.
WeatherRegimeBounded ==
  [][ run1'.pc \in {"run", "done"} =>
        /\ 50 <= run1'.weather_regime /\ run1'.weather_regime <= 150
        /\ (run1.pc = "run" /\ run1.weather_timer > 0)
              => run1'.weather_regime = run1.weather_regime ]_vars

\* C7 witness: a redraw below 0.5 has been clamped (the quantiles of the
\* draw give 0.5 only through the clamp) and the timer is freshly set
WeatherRegimeWitness ==
  /\ run1.pc = "run" /\ run1.t > 0
  /\ run1.weather_regime = 50 /\ run1.weather_timer >= 4

\* C8: after every step hay stock, every age of the ledger and the ewe, ram,
\* lamb and pregnant counts are not negative (cash is signed).
NonNegative ==
  run1.pc \in {"run", "done"} =>
     /\ run1.hay_stock_bales >= 0
     /\ \A i \in DOMAIN run1.ewe_ages : run1.ewe_ages[i] >= 0
     /\ run1.ewes >= 0 /\ run1.rams_breeding >= 0
     /\ run1.lambs_male >= 0 /\ run1.lambs_female >= 0
     /\ run1.pregnant_ewes >= 0
     /\ run1.row.Hay_Stock >= 0

\* C8 witness: a hay feeding day has emptied the stock below the need while
\* cash is negative
NonNegativeWitness ==
  /\ run1.pc = "run"
  /\ run1.loc.fed < run1.loc.needed_bales /\ run1.loc.hay_before > 0
  /\ run1.hay_stock_bales = 0
  /\ run1.cash < 0

\* labels that tag a day fed from hay
HayLabels == {"Seno", "Seno (Ochrana)"}

\* C9 as stated: on a grazing day with pasture health < 0.5 and more than 5
\* bales in stock at decision time the pressure is 0, pasture health does
\* not decrease and the feed source is a hay / pasture-rest label.
PastureProtectionHayLabel ==
  [][ (run1.pc = "run" /\ run1'.pc = "run" /\ run1'.loc.grazing
       /\ run1.pasture_health < 5000 /\ run1'.loc.hay_before > 5000)
      => /\ run1'.loc.pressure = 0
         /\ run1'.pasture_health >= run1.pasture_health
         /\ run1'.loc.feed_source \in HayLabels ]_vars

\* C9 amended: ... the feed source is the pasture-rest label when the stock
\* covers the day's need and the starvation-no-hay label when it does not;
\* it is never a grazing label.
PastureProtection ==
  [][ (run1.pc = "run" /\ run1'.pc = "run" /\ run1'.loc.grazing
       /\ run1.pasture_health < 5000 /\ run1'.loc.hay_before > 5000)
      => /\ run1'.loc.pressure = 0
         /\ run1'.pasture_health >= run1.pasture_health
         /\ run1'.loc.feed_source =
              IF run1'.loc.fed < run1'.loc.needed_bales
              THEN "Hladoveni (Bez sena)" ELSE "Seno (Ochrana)" ]_vars

\* C9 witness: a protected grazing day on which the stock did not cover the
\* need
PastureProtectionWitness ==
  /\ run1.pc = "run"
  /\ run1.loc.grazing /\ run1.loc.force_hay /\ run1.loc.pressure = 0
  /\ run1.loc.hay_before > 5000
  /\ run1.loc.feed_source = "Hladoveni (Bez sena)"

\* C10: on the sales day the quota is shared by the batches, males first:
\* the animals priced at retail are min(quota, animals sold) in number, the
\* others are priced wholesale, the revenue is retail * R + rest * W (100
\* animals against a quota of 40: 40 R + 60 W); culled ewes are priced
\* wholesale and leave the quota as it is.
TieredPricing ==
  LET l == run1.loc
      q == run1.cfg.market_local_limit
      R == l.base_meat_price
      W == run1.cfg.price_meat_wholesale
      sold == l.sold_males + l.sold_females
      retail == l.local_males + l.local_females
  IN /\ run1.pc \in {"cull", "renew"} =>
          /\ l.local_males = Min(q, l.sold_males)
          /\ l.quota_remaining = q - l.local_males
     /\ run1.pc = "sold" =>
          /\ retail = Min(q, sold)
          /\ l.local_males = Min(q, l.sold_males)
          /\ l.rev_males + l.rev_females = retail * R + (sold - retail) * W
          /\ l.quota_remaining = q - retail
          /\ l.inc_meat = 40 * l.rev_males + 35 * l.rev_females
                          + l.cull_count * 60 * W
          /\ l.sold_animals = sold + l.cull_count

\* C10 witness: 30 males and 70 females sold against a quota of 40 (30 and
\* 10 of them at retail), ewes culled on the same day
TieredPricingWitness ==
  /\ run1.pc = "sold"
  /\ run1.cfg.market_local_limit = 40
  /\ run1.loc.sold_males = 30 /\ run1.loc.sold_females = 70
  /\ run1.loc.local_males = 30 /\ run1.loc.local_females = 10
  /\ run1.loc.cull_count > 0
  /\ run1.loc.rev_males + run1.loc.rev_females
        = 40 * run1.loc.base_meat_price
          + 60 * run1.cfg.price_meat_wholesale

\* C11 as stated: a configuration with a negative land area, a barn capacity
\* of zero or a drought probability outside [0, 1] after the addition of
\* drought_prob_add is rejected: no model is constructed from it, no step
\* runs on it and its probability is not clamped.
ValidationRejects ==
  run1.pc \in {"run", "done"} =>
     /\ run1.cfg.land_area >= 0
     /\ run1.cfg.barn_capacity > 0
     /\ BaseDrought(run1.cfg) + run1.cfg.drought_prob_add \in 0 .. 10000
     /\ run1.drought_chance = BaseDrought(run1.cfg) + run1.cfg.drought_prob_add

\* C12: for an admin_complexity_factor above 1 the daily admin cost
\* admin_base_cost / 365 * (max(1, N) / 50) ^ factor is strictly increasing
\* and convex in the animal count N >= 1 (a run always holds a ram).
\* admin_power holds the exact whole powers of N, N + 1, N + 2: the squares of
\* the scale for a half exponent (a + b >= 2 c for roots a, b, c of A, B, C
\* iff 4 C <= A + B or (4 C - A - B)^2 <= 4 A B), the scale itself otherwise.
\* admin_scale holds the scale in thousandths as the daily step rounds it,
\* which can only be required not to decrease.
DiseconomyConvex ==
  run1.pc = "costed" =>
     LET B == run1.admin_power[1]
         C == run1.admin_power[2]
         A == run1.admin_power[3]
         sc == run1.admin_scale
     IN /\ B < C /\ C < A
        /\ sc[1] <= sc[2] /\ sc[2] <= sc[3]
        /\ IF run1.admin_complexity_factor % 2 = 1
           THEN \/ 4 * C <= A + B
                \/ (4 * C - A - B) * (4 * C - A - B) <= 4 * A * B
           ELSE A + B >= 2 * C

\* C12 witness: the default factor 1.5 with 24, 25 and 26 animals
DiseconomyWitness ==
  /\ run1.pc = "costed"
  /\ run1.admin_complexity_factor = 3 /\ run1.total_animals = 24
  /\ run1.admin_power = << 13824, 15625, 17576 >>
  /\ run1.admin_scale[1] < run1.admin_scale[2]

\* C13: run() ends after exactly sim_years * 365 steps; every step writes the
\* DailyRecord of its day and moves to the next day, whatever the cash, the
\* hay stock and the herd are; the counts handed to the binomial draws and to
\* the sampling of the ledger stay non-negative so no draw raises.
RunCompletes ==
  /\ <>(run1.pc = "done")
  /\ [](run1.pc = "done" => run1.t = run1.cfg.sim_years * 365)
  /\ [](run1.pc \in {"run", "done"} =>
           /\ run1.ewes = Len(run1.ewe_ages)
           /\ run1.pregnant_ewes >= 0
           /\ run1.lambs_male >= 0 /\ run1.lambs_female >= 0)
  /\ [][run1.pc = "run" /\ run1'.pc = "run" =>
           /\ run1'.t = run1.t + 1
           /\ run1'.row.Cash = run1'.cash
           /\ run1'.row.Ewes = run1'.ewes
           /\ run1'.row.Hay_Stock = run1'.hay_stock_bales]_vars

\* C13 witness: a run that ended on day 365 in debt, without hay and
\* without ewes
RunCompletesWitness ==
  /\ run1.pc = "done" /\ run1.t = 365
  /\ run1.cash < 0 /\ run1.hay_stock_bales = 0 /\ run1.ewes = 0

\* C14: the event log only grows, its new entries carry the day on which they
\* are appended, and every notable occurrence of a day (season change,
\* drought, feed delivery, machinery breakdown, sale, tax charge, shock)
\* leaves an entry of that day.
EventLogComplete ==
  [][run1.pc = "run" /\ run1'.pc = "run" =>
       LET old == run1.event_log
           new == run1'.event_log
           d == run1.t
           l == run1'.loc
           added == SubSeq(new, Len(old) + 1, Len(new))
           Has(kind) == \E i \in 1 .. Len(added) : added[i] = <<d, kind>>
           depreciation ==
             (run1.cfg.own_machine_capex \div run1.cfg.own_machine_life)
             \div 365
       IN /\ Len(new) >= Len(old)
          /\ SubSeq(new, 1, Len(old)) = old
          /\ \A i \in 1 .. Len(added) : added[i][1] = d
          /\ (run1.is_winter /\ ~run1'.is_winter => Has("spring"))
          /\ (~run1.is_winter /\ run1'.is_winter => Has("winter"))
          /\ (l.is_drought => Has("drought"))
          /\ (l.arrived > 0 => Has("delivery"))
          /\ (run1.cfg.machinery_mode = "Own" /\ l.day_machinery > depreciation
                => Has("breakdown"))
          /\ (l.sale_day => Has("sale"))
          /\ (l.shock_val > 0 => Has("shock"))
          /\ (Calendar(d).month = 12 /\ Calendar(d).day = 31
                => added # << >>)]_vars

\* C15: the calendar has years of 365 days: no day is a February 29, no day
\* has day-of-year 366, and day t lies in the simulated year t \div 365.
FixedYear ==
  run1.pc = "calendar" =>
     /\ run1.date.dayofyear <= 365
     /\ ~(run1.date.month = 2 /\ run1.date.day = 29)
     /\ run1.date.year - 2025 = run1.t \div 365

\* C16: once the arrivals of the day are in, an order is placed exactly when
\* hay stock plus pending amounts is below 3 days of need and the cash exceeds
\* the cost; the order is for 7 days of need, is the only one of the day, is
\* appended to the queue, and its full cost leaves the cash in the same step.
OrderPlacement ==
  [][run1.pc = "run" /\ run1'.pc = "run" =>
       LET pre == BeforeReorder(run1)
           daily == BalesFor(pre, pre.loc.demand_kg, 120)
           due == pre.hay_stock_bales + SumAmounts(pre.feed_orders) < 3 * daily
           price == get_stochastic_value(pre.rng,
                                         pre.cfg.price_bale_sell_winter, 10000)
           cost == (7 * daily * (price \div 100)) \div 10
           n == Len(pre.feed_orders)
           queue == run1'.feed_orders
           placed == Len(queue) > n
           l == run1'.loc
       IN /\ placed <=> (due /\ pre.cash > cost)
          /\ Len(queue) <= n + 1
          /\ SubSeq(queue, 1, n) = pre.feed_orders
          /\ placed => /\ queue[n + 1].amount = 7 * daily
                       /\ run1'.cash = pre.cash - cost + l.income - l.total_out
          /\ ~placed => run1'.cash = pre.cash + l.income - l.total_out]_vars

\* C16 witness: a day on which an order was placed and paid
OrderPlacementWitness ==
  /\ run1.pc = "run" /\ run1.loc.ordered /\ run1.loc.order_cost > 0
  /\ run1.feed_orders # << >>
  /\ run1.feed_orders[Len(run1.feed_orders)].amount > 0

\* C17: when the reorder condition holds but the cash does not exceed the
\* cost, the ordering step leaves cash, hay stock and queue as they are; an
\* order that is placed leaves the cash non-negative.
InsufficientCash ==
  [][run1.pc = "run" /\ run1'.pc = "run" =>
       LET pre == BeforeReorder(run1)
           post == Reorder(pre)
           daily == BalesFor(pre, pre.loc.demand_kg, 120)
           due == pre.hay_stock_bales + SumAmounts(pre.feed_orders) < 3 * daily
           price == get_stochastic_value(pre.rng,
                                         pre.cfg.price_bale_sell_winter, 10000)
           cost == (7 * daily * (price \div 100)) \div 10
       IN /\ due /\ ~(pre.cash > cost) =>
                /\ post.cash = pre.cash
                /\ post.hay_stock_bales = pre.hay_stock_bales
                /\ post.feed_orders = pre.feed_orders
                /\ run1'.feed_orders = pre.feed_orders
                /\ ~run1'.loc.ordered
          /\ post.cash < pre.cash => post.cash >= 0
          /\ run1'.loc.ordered => post.cash >= 0]_vars

\* C17 witness: a day on which hay was due for reorder and none was ordered
InsufficientCashWitness ==
  /\ run1.pc = "run" /\ run1.t > 0
  /\ run1.loc.reorder_due /\ ~run1.loc.ordered
  /\ run1.hay_stock_bales = 0

\* C18: an order placed on day d with delay D >= 0 enters the hay stock once,
\* in the arrivals of day d + D, and leaves the queue then: the arrivals of a
\* day take exactly the orders dated that day, no order is still queued once
\* its day has been stepped, and a new order is dated d + D.
DeliveryOnTime ==
  [][run1.pc = "run" /\ run1'.pc = "run" =>
       LET d == run1.t
           pre == BeforeReorder(run1)
           today == SelectSeq(run1.feed_orders, LAMBDA o : o.date = d)
           later == SelectSeq(run1.feed_orders, LAMBDA o : o.date > d)
           queue == run1'.feed_orders
       IN /\ pre.feed_orders = later
          /\ pre.hay_stock_bales = run1.hay_stock_bales + SumAmounts(today)
          /\ Len(today) + Len(later) = Len(run1.feed_orders)
          /\ run1'.loc.ordered =>
                queue[Len(queue)].date = d + run1.cfg.delay_feed_delivery
          /\ \A i \in 1 .. Len(queue) : queue[i].date > d]_vars

\* C19: each day the perceived BCS becomes perceived * (1 - a) + BCS * a with
\* a = 1 / delay_bcs_perception and the BCS left by the previous day, once,
\* before the feeding decision: the decision to supplement on pasture reads
\* that value, so it does not depend on the BCS change of its own day; the
\* new perceived BCS lies between the old one and the BCS it was drawn to.
PerceptionDelay ==
  [][run1.pc = "run" /\ run1'.pc = "run" =>
       LET delay == run1.cfg.delay_bcs_perception
           old == run1.perceived_bcs
           bcs == run1.bcs
           new == (old * (delay - 1) + bcs) \div delay
       IN /\ delay >= 1
          /\ run1'.perceived_bcs = new
          /\ Min(old, bcs) <= new /\ new <= Max(old, bcs)
          /\ run1'.loc.grazing =>
                (run1'.loc.wants_to_supplement <=> new < 3200)]_vars

\* C19 witness: a grazing day on which the farmer, a month behind, still
\* sees a herd in good condition above 3.2 and does not supplement, while the
\* BCS has already fallen below what the farmer sees
PerceptionDelayWitness ==
  /\ run1.pc = "run" /\ run1.cfg.delay_bcs_perception = 30
  /\ run1.loc.grazing /\ ~run1.loc.wants_to_supplement
  /\ run1.perceived_bcs >= 3200 /\ run1.bcs < run1.perceived_bcs

\* C20: on a winter or drought day the hay fed is min(stock, 1.2 * demand /
\* bale weight); when the need is met the BCS does not rise and drops by no
\* more than the maintenance decrement 0.001, otherwise it does not rise and
\* drops by no more than the starvation decrement 0.005 (days with births,
\* which lower the BCS further, are left out).
WinterFeeding ==
  [][run1.pc = "run" /\ run1'.pc = "run" =>
       LET l == run1'.loc
           needed == BalesFor(run1', l.demand_kg, 120)
       IN (run1'.is_winter \/ l.is_drought) =>
             /\ ~l.grazing
             /\ l.needed_bales = needed
             /\ l.fed = Min(l.hay_before, needed)
             /\ l.born_today_mothers = 0 =>
                   IF l.fed = needed
                   THEN run1.bcs - 1 <= run1'.bcs /\ run1'.bcs <= run1.bcs
                   ELSE run1.bcs - 5 <= run1'.bcs /\ run1'.bcs <= run1.bcs]_vars

\* C21: on a grazing day with less grass than demand, no pasture protection
\* and a perceived BCS of at least 3.2, feeding takes no hay and the BCS
\* drops; hay covers a grazing deficit only when the perceived BCS is below
\* 3.2 or the pasture is protected.
BlindSpot ==
  [][run1.pc = "run" /\ run1'.pc = "run" =>
       LET l == run1'.loc
           pre == Reorder(BeforeReorder(run1))
           post == Feeding(pre)
       IN /\ (l.grazing /\ l.avail < l.demand_kg /\ ~l.force_hay
              /\ run1'.perceived_bcs >= 3200)
             => /\ post.hay_stock_bales = pre.hay_stock_bales
                /\ l.fed = 0
                /\ post.bcs < pre.bcs
                /\ l.feed_source = "Pastva (Bez prikrmu)"
          /\ (l.grazing /\ post.hay_stock_bales < pre.hay_stock_bales)
             => (run1'.perceived_bcs < 3200 \/ l.force_hay)]_vars

\* C21 witness: a grazing day short of grass on which hay is in stock and
\* the BCS is already below 3.2, but the farmer still sees 3.2 or more and
\* feeds no hay
BlindSpotWitness ==
  /\ run1.pc = "run" /\ run1.loc.grazing /\ ~run1.loc.force_hay
  /\ run1.loc.avail < run1.loc.demand_kg
  /\ run1.perceived_bcs >= 3200 /\ run1.bcs < 3200
  /\ run1.loc.hay_before > 0 /\ run1.loc.fed = 0
  /\ run1.loc.feed_source = "Pastva (Bez prikrmu)"

\* C22 as stated: the label recorded for a day is one of the seven documented
\* ones (pure grazing, grazing + hay, grazing + starvation, hay, hay
\* (pasture rest), starvation waiting for delivery, starvation without hay).
FeedLabelsDocumented ==
  (run1.pc \in {"run", "done"} /\ run1.t > 0) =>
     run1.row.Feed_Source \in
        { "Pastva", "Pastva + Seno", "Pastva + Hlad", "Seno",
          "Seno (Ochrana)", "Hladoveni (Cekani)", "Hladoveni (Bez sena)" }

\* C22: the record of every simulated day carries one label, the one the
\* feeding of that day chose, and it is one of the eight labels of the code:
\* the seven documented ones and grazing without supplement.
FeedLabels ==
  (run1.pc \in {"run", "done"} /\ run1.t > 0) =>
     /\ run1.row.Feed_Source = run1.loc.feed_source
     /\ run1.row.Feed_Source \in
           { "Pastva", "Pastva + Seno", "Pastva + Hlad", "Seno",
             "Seno (Ochrana)", "Hladoveni (Cekani)", "Hladoveni (Bez sena)",
             "Pastva (Bez prikrmu)" }

\* C22 witness: a day recorded as grazing without supplement
FeedLabelsWitness ==
  /\ run1.pc = "run" /\ run1.t > 0
  /\ run1.row.Feed_Source = "Pastva (Bez prikrmu)"
  /\ run1.loc.grazing /\ ~run1.loc.wants_to_supplement

\* C23: on the mating day the pregnant pool becomes ewes * rate (rounded
\* down) with rate 0.95 for BCS >= 3.0, 0.70 for 2.5 <= BCS < 3.0 and 0.30
\* below; the pool left at the end of the day is that number less the
\* abortions of the day.
MatingRate ==
  [][run1.pc = "run" /\ run1'.pc = "run" /\ run1'.loc.mated =>
       LET bcs == run1'.bcs
           rate == IF bcs >= 3000 THEN 95 ELSE IF bcs >= 2500 THEN 70 ELSE 30
       IN run1'.pregnant_ewes + run1'.loc.abortions
             = (run1.ewes * rate) \div 100]_vars

\* C24: abortions are taken from the pregnant pool on a day iff the day is a
\* winter day, the pool is not empty and BCS is below 2.0, and they are then
\* 5% of the pool (rounded down); on a non-winter day abortions never reduce
\* the pool.
GestationRisk ==
  [][run1.pc = "run" /\ run1'.pc = "run" =>
       LET g == BeforeGestation(run1)
           at_risk == g.is_winter /\ g.pregnant_ewes > 0 /\ g.bcs < 2000
       IN /\ run1'.loc.abortions =
               IF at_risk THEN (g.pregnant_ewes * 5) \div 100 ELSE 0
          /\ Gestation(g).pregnant_ewes =
               g.pregnant_ewes - run1'.loc.abortions
          /\ ~run1'.is_winter => Gestation(g).pregnant_ewes = g.pregnant_ewes]_vars

\* C25: the pregnant pool grows only on the mating day; lambs are added only
\* on days of the lambing month; the mothers lambing on a day are never more
\* than the pool; the newborns of a day are split so that the new male and
\* the new female lambs together are the number born.
GestationPipeline ==
  [][run1.pc = "run" /\ run1'.pc = "run" =>
       LET g == Gestation(BeforeGestation(run1))
           l == Lambing(g)
           d == Calendar(run1.t)
           born == run1'.loc.new_lambs
       IN /\ run1'.pregnant_ewes > run1.pregnant_ewes
               => d.month = 10 /\ d.day = 1 /\ run1'.loc.mated
          /\ run1'.pregnant_ewes = l.pregnant_ewes
          /\ l.lambs_male >= g.lambs_male /\ l.lambs_female >= g.lambs_female
          /\ (l.lambs_male > g.lambs_male \/ l.lambs_female > g.lambs_female
                \/ born > 0 \/ run1'.loc.born_today_mothers > 0
                \/ run1'.lambs_male > run1.lambs_male
                \/ run1'.lambs_female > run1.lambs_female)
               => d.month = 3
          /\ run1'.loc.born_today_mothers <= g.pregnant_ewes
          /\ l.pregnant_ewes = g.pregnant_ewes - run1'.loc.born_today_mothers
          /\ (l.lambs_male - g.lambs_male) + (l.lambs_female - g.lambs_female)
               = born]_vars

\* C25 witness: a lambing day with an odd number of newborns, three or more
GestationPipelineWitness ==
  /\ run1.pc = "run" /\ run1.t > 0
  /\ Calendar(run1.t - 1).month = 3
  /\ run1.loc.born_today_mothers > 0
  /\ run1.loc.new_lambs >= 3 /\ run1.loc.new_lambs % 2 = 1

\* C26: after the culling of the sales day no ewe of the ledger is older than
\* max_ewe_age, and the number culled is the larger of the number of ewes over
\* the limit and 15% of the herd before the cull (rounded down), for every
\* herd size, 0 and 1 included.
AnnualCulling ==
  [][run1.pc = "cull" =>
       LET limit == run1.cfg.max_ewe_age
           over == CountOld(run1.ewe_ages, limit)
           culled == Max(over, (run1.ewes * 15) \div 100)
       IN /\ run1'.loc.cull_count = culled
          /\ Len(run1'.ewe_ages) = Len(run1.ewe_ages) - culled
          /\ run1'.ewes = Len(run1'.ewe_ages)
          /\ CountOld(run1'.ewe_ages, limit) = 0
          /\ CountOld(RenewFemales(run1').ewe_ages, limit) = 0]_vars

\* C26 witness: a herd of 14 with one ewe over the limit, two ewes culled
AnnualCullingWitness ==
  /\ run1.pc = "renew"
  /\ run1.loc.cull_count = 2 /\ run1.ewes = 12
  /\ \E i \in 1 .. 12 : run1.ewe_ages[i] = run1.cfg.max_ewe_age

\* C27: on the sales day all male lambs are sold; the female lambs promoted
\* are max(0, min(80% of the female lambs rounded down, barn_capacity less
\* the ewes left after the cull)); each of them enters the ledger at the age
\* of 0.6 years (219 days); the other female lambs are sold; both lamb counts
\* are 0 afterwards; the animals sold are the male lambs, the female lambs
\* not promoted and the culled ewes.
AnnualRenewal ==
  [][/\ run1.pc = "sell_males" =>
          /\ run1'.loc.sold_males = run1.lambs_male
          /\ run1'.loc.sold_animals = run1.lambs_male
          /\ run1'.lambs_male = 0
          /\ run1'.lambs_female = run1.lambs_female
     /\ run1.pc = "renew" =>
          LET lambs == run1.lambs_female
              promoted == Max(0, Min((lambs * 8) \div 10,
                                     run1.cfg.barn_capacity - run1.ewes))
          IN /\ run1'.loc.keep = promoted
             /\ run1'.ewe_ages
                  = run1.ewe_ages \o [i \in 1 .. promoted |-> 219]
             /\ run1'.ewes = run1.ewes + promoted
             /\ run1'.loc.sold_females = lambs - promoted
             /\ run1'.lambs_male = 0 /\ run1'.lambs_female = 0
             /\ run1'.loc.sold_animals
                  = run1.loc.sold_males + (lambs - promoted)
                    + run1.loc.cull_count]_vars

\* C27 witness: the barn has room for 6 of 9 female lambs, 7 of which would
\* be kept; 3 male lambs, 3 female lambs and a culled ewe are sold
AnnualRenewalWitness ==
  /\ run1.pc = "sold"
  /\ run1.loc.keep = 6 /\ run1.loc.sold_females = 3
  /\ run1.loc.sold_males = 3 /\ run1.loc.cull_count = 1
  /\ run1.loc.sold_animals = 7
  /\ run1.ewes = run1.cfg.barn_capacity
  /\ run1.lambs_male = 0 /\ run1.lambs_female = 0

\* C28: winter ends only on a day whose day of the year is past
\* winter_end_day and begins only on a day whose day of the year is past
\* winter_start_day, each after a random draw of that day; winter_end_day is
\* drawn anew only when winter is entered, and winter_start_day never.
SeasonFlips ==
  [][run1.pc = "run" /\ run1'.pc = "run" =>
       LET b == MeatPrice(WeatherRegime(Perception(Aging(run1))))
           a == SeasonControl(b)
           day == Calendar(run1.t).dayofyear
           added == SubSeq(a.event_log, Len(b.event_log) + 1,
                           Len(a.event_log))
           Has(kind) == \E i \in 1 .. Len(added) : added[i] = <<run1.t, kind>>
           may_end == b.is_winter /\ day > b.winter_end_day
           may_begin == (~b.is_winter \/ Has("spring"))
                          /\ day > b.winter_start_day
       IN /\ b.is_winter = run1.is_winter /\ run1'.is_winter = a.is_winter
          /\ b.winter_end_day = run1.winter_end_day
          /\ run1'.winter_end_day = a.winter_end_day
          /\ run1'.winter_start_day = run1.winter_start_day
          /\ (run1.is_winter /\ ~run1'.is_winter => may_end /\ Has("spring"))
          /\ (~run1.is_winter /\ run1'.is_winter
                => may_begin /\ Has("winter"))
          /\ (Has("spring") => may_end)
          /\ (Has("winter") => may_begin /\ run1'.is_winter)
          /\ (run1'.winter_end_day # run1.winter_end_day => Has("winter"))
          /\ (a.rng = b.rng <=> ~may_end /\ ~may_begin)
          /\ (may_end /\ ~Has("spring") /\ ~(day > b.winter_start_day)
                => a.rng = NextRng(b.rng) /\ run1'.is_winter)]_vars

\* C28 witness: winter has begun on the day before, after day winter_start_day
\* of the year, with a new winter_end_day, and spring was seen earlier
SeasonFlipsWitness ==
  /\ run1.pc = "run" /\ run1.t > 0 /\ run1.is_winter
  /\ Calendar(run1.t - 1).dayofyear > run1.winter_start_day
  /\ run1.winter_end_day # (80 * run1.winter_len_mod) \div 100
  /\ \E i, j \in 1 .. Len(run1.event_log) :
        /\ i < j
        /\ run1.event_log[i][2] = "spring"
        /\ run1.event_log[j] = <<run1.t - 1, "winter">>

\* C29: the weather regime and its timer are drawn anew only on a day that
\* starts with the timer at zero; the timers such a day can draw are the
\* integers 5 .. 10, so that a regime lasts 5 to 10 days; on every other day
\* the timer is decremented and the regime is left as it is.
RegimeTimer ==
  [][run1.pc = "run" /\ run1'.pc = "run" =>
       LET b == Perception(Aging(run1))
           drawn == run1'.weather_timer + 1
           draws == { WeatherRegime([b EXCEPT !.rng = r]).weather_timer + 1 :
                        r \in 0 .. 65535 }
       IN IF run1.weather_timer <= 0
          THEN /\ drawn \in 5 .. 10
               /\ draws = 5 .. 10
          ELSE /\ run1'.weather_timer = run1.weather_timer - 1
               /\ run1'.weather_regime = run1.weather_regime
               /\ WeatherRegime(b).rng = b.rng]_vars

\* C30: a drought is flagged only on a day that is not a winter day and lies
\* in June, July or August; on every other day the flag is false, no drought
\* is logged and the drought draw is not taken from the random stream.
DroughtSeason ==
  [][run1.pc = "run" /\ run1'.pc = "run" =>
       LET b == Demand(FeedArrivals(SeasonControl(MeatPrice(WeatherRegime(
                  Perception(Aging(run1)))))))
           a == Drought(b)
           summer == Calendar(run1.t).month \in {6, 7, 8}
           logged == \E i \in 1 .. Len(run1'.event_log) :
                       run1'.event_log[i] = <<run1.t, "drought">>
       IN /\ b.is_winter = run1'.is_winter
          /\ a.loc.is_drought = run1'.loc.is_drought
          /\ (run1'.loc.is_drought => ~run1'.is_winter /\ summer)
          /\ (logged <=> run1'.loc.is_drought)
          /\ (run1'.is_winter \/ ~summer
                => ~run1'.loc.is_drought /\ a.rng = b.rng)
          /\ (~run1'.is_winter /\ summer => a.rng = NextRng(b.rng))]_vars

\* C30 witness: a drought day of a year whose winter ended in June
DroughtSeasonWitness ==
  /\ run1.pc = "run" /\ run1.t > 0
  /\ run1.loc.is_drought /\ ~run1.is_winter
  /\ \E i \in 1 .. Len(run1.event_log) :
        /\ run1.event_log[i][2] = "spring"
        /\ Calendar(run1.event_log[i][1]).month = 6
        /\ Calendar(run1.event_log[i][1]).day > 1

\* C31: in every simulated year of a run, whatever sim_years, the land and
\* building tax is charged on exactly one day and a subsidy is paid on exactly
\* two days, the 30% payment in spring and the 70% payment in autumn. Checked
\* on the last day of each simulated year over the 365 days of that year.
YearlyFinance ==
  run1.pc = "calendar" /\ run1.t % 365 = 364 =>
     LET days == (run1.t - 364) .. run1.t
         farm(u) == [FarmModel(FarmConfig, 0) EXCEPT !.t = u]
         taxed == { u \in days : LandTax(farm(u)).loc.var_cost > 0 }
         paid == { u \in days : Subsidies(farm(u)).loc.inc_subsidy > 0 }
         spring == { u \in paid : Calendar(u).month = 4 }
         autumn == { u \in paid : Calendar(u).month = 11 }
     IN /\ Cardinality(taxed) = 1
        /\ Cardinality(paid) = 2
        /\ Cardinality(spring) = 1 /\ Cardinality(autumn) = 1

\* C32: the configuration of a replication is the base inputs overridden by
\* the values of the scenario, then by the labor override, then by the
\* perturbation of the replication; the perturbation works on a copy, so the
\* run parameters of the scenario and the base inputs are the same for every
\* later replication, and a forced labor setting wins over the scenario.
ConfigLayering ==
  [][/\ run1'.pc # "none" => run1'.base_kwargs = run1.base_kwargs
     /\ run1.pc = "scenario" =>
          LET sc == Head(run1.scenarios)
              base == run1.base_kwargs
              kw == run1'.run_kwargs
              force == run1.labor_override
          IN /\ DOMAIN kw = DOMAIN base
             /\ \A k \in DOMAIN base \ {"include_labor_cost"} :
                   kw[k] = IF k \in DOMAIN sc THEN sc[k] ELSE base[k]
             /\ kw.include_labor_cost =
                   IF force = "Vse ZAPNUTO" THEN TRUE
                   ELSE IF force = "Vse VYPNUTO" THEN FALSE
                   ELSE IF "include_labor_cost" \in DOMAIN sc
                        THEN sc.include_labor_cost
                        ELSE base.include_labor_cost
     /\ run1.pc # "scenario" /\ run1'.pc # "none" =>
          run1'.run_kwargs = run1.run_kwargs
     /\ run1.pc = "seed" =>
          LET kw == run1.run_kwargs
              cfg == run1'.cfg
              sel == IF run1.sensitivity_on THEN run1.sens_selection
                     ELSE << >>
              chosen == { sel[n] : n \in 1 .. Len(sel) }
              touched == chosen \cup
                           IF "price_bale_sell_winter" \in chosen
                           THEN {"price_bale_sell_summer"} ELSE {}
          IN /\ DOMAIN cfg = DOMAIN kw
             /\ \A k \in DOMAIN kw \ touched : cfg[k] = kw[k]
             /\ \A k \in touched :
                   /\ cfg[k] * 10 >= kw[k] * 8 - 10
                   /\ cfg[k] * 10 <= kw[k] * 12
             /\ (run1.labor_override = "Vse ZAPNUTO"
                   => cfg.include_labor_cost)
             /\ (run1.labor_override = "Vse VYPNUTO"
                   => ~cfg.include_labor_cost)
             /\ run1'.rng = SeedRng(0, run1.sim_seed + run1.i)
     /\ run1.pc = "run" /\ run1'.pc = "run" => run1'.cfg = run1.cfg]_vars

\* C32 witness: the second replication of the second scenario runs with a
\* perturbed meat price, the run parameters of the scenario are as they were
\* merged, and labor is forced off although the scenario switches it on
ConfigLayeringWitness ==
  /\ run1.pc = "run" /\ run1.i = 1 /\ run1.scenarios = << >>
  /\ run1.t = LayerDays
  /\ run1.labor_override = "Vse VYPNUTO"
  /\ run1.base_kwargs.include_labor_cost
  /\ ~run1.cfg.include_labor_cost /\ run1.row.Exp_Labor = 0
  /\ run1.cfg.price_meat_avg # run1.run_kwargs.price_meat_avg
  /\ run1.run_kwargs.price_meat_avg = run1.base_kwargs.price_meat_avg
  /\ run1.run_kwargs.market_local_limit = 10

\* C33: in a run that starts with initial_ewes <= barn_capacity the number
\* of ewes, which is the length of the ledger, is at most barn_capacity after
\* every step.
BarnCapacity ==
  run1.pc \in {"run", "done"}
    /\ run1.cfg.initial_ewes <= run1.cfg.barn_capacity =>
       /\ run1.ewes <= run1.cfg.barn_capacity
       /\ Len(run1.ewe_ages) = run1.ewes

\* C33 witness: the evening of a sales day on which the room left in the
\* barn, not the 80% rule, has set the number of promoted lambs, the barn full
BarnCapacityWitness ==
  /\ run1.pc = "run" /\ run1.loc.sale_day
  /\ run1.cfg.initial_ewes <= run1.cfg.barn_capacity
  /\ run1.loc.keep > 0
  /\ run1.loc.keep < ((run1.loc.keep + run1.loc.sold_females) * 8) \div 10
  /\ run1.ewes = run1.cfg.barn_capacity

\* C34: on every day the pregnant pool is at most the number of ewes of the
\* ledger, and on the morning of a mating day nothing is left of the pool of
\* the year before.
PregnantBounded ==
  run1.pc \in {"run", "done"} =>
     /\ run1.pregnant_ewes <= run1.ewes
     /\ (run1.t > 0 /\ Calendar(run1.t).month = 10 /\ Calendar(run1.t).day = 1
           => run1.pregnant_ewes = 0)

\* C35: on every day the change of cash is the Income of the day's row less
\* the sum of the expense categories of that row (feed, vet, machinery,
\* mowing, shearing, ram purchase, admin, labor, overhead, shock); no money
\* moves outside these categories.
CashReconciled ==
  [][run1.pc = "run" /\ run1'.pc = "run" =>
       LET row == run1'.row
           expenses == row.Exp_Feed + row.Exp_Vet + row.Exp_Machinery
                       + row.Exp_Mow + row.Exp_Shearing + row.Exp_RamPurchase
                       + row.Exp_Admin + row.Exp_Labor + row.Exp_Overhead
                       + row.Exp_Shock
       IN /\ row.Cash = run1'.cash
          /\ run1'.cash - run1.cash = row.Income - expenses]_vars

\* C36: in every calendar year winter ends at most once and begins at most
\* once, and every day whose day of the year is not past winter_end_day is a
\* winter day.
SeasonRegular ==
  run1.pc \in {"run", "done"} =>
     LET log == run1.event_log
         Changes(kind, y) ==
           { i \in 1 .. Len(log) :
               log[i][2] = kind /\ Calendar(log[i][1]).year = y }
     IN /\ \A y \in 2025 .. 2025 + run1.cfg.sim_years :
             /\ Cardinality(Changes("spring", y)) <= 1
             /\ Cardinality(Changes("winter", y)) <= 1
        /\ (run1.t > 0
              /\ Calendar(run1.t - 1).dayofyear <= run1.winter_end_day
              => run1.is_winter)

\* C37: in a run whose initial hay stock fits into the hay barn the stock at
\* the end of every day is at most the capacity of the barn,
\* floor(hay_barn_area_m2 * 3 / bale_volume_m3) bales.
HayBarnCapacity ==
  run1.pc \in {"run", "done"} =>
     LET max_bales ==
           ((run1.cfg.hay_barn_area_m2 * 30) \div run1.cfg.bale_volume_m3)
           * 1000
     IN run1.cfg.initial_hay_bales <= max_bales
          => run1.hay_stock_bales <= max_bales

====
